---- MODULE Spec2Model ----
(***************************************************************************)
(* A model of the routing and middleware-composition core of tide:         *)
(* the Route builder (src/server/route.rs), the request value              *)
(* (src/request.rs), the CORS middleware (src/middleware/cors.rs) and the  *)
(* header-setting middleware of tests/route_middleware.rs.  The router,    *)
(* the Next continuation, the middleware-wrapping endpoint and the Server  *)
(* are not part of the sources at hand and follow spec.md sections 4.1,    *)
(* 4.3, 4.4 and 4.5.                                                       *)
(*                                                                         *)
(* Strings are sequences of tokens: "/" is the separator, a letter stands  *)
(* for a literal path segment and WILDCARD for "*--tide-path-rest".        *)
(***************************************************************************)
EXTENDS Integers, Sequences, FiniteSets, TLC

VARIABLES
    phase,        \* "setup" while the application is built, "serving" after
    app_mw,       \* Server.middleware: the app-level middleware list
    router,       \* Server.router: the registrations, in registration order
    builders,     \* the live Route handles, outermost first (a child borrows its parent)
    req,          \* the request in flight
    cur,          \* the callee about to run: a Next continuation or an endpoint
    stack,        \* the middleware layers awaiting the downstream response
    resp,         \* the response travelling back
    mode,         \* "idle", "call", "return", "done" or "panic"
    log,          \* history: the events of the request in flight
    g_router,     \* history: for each registration, what the builder held when it was made
    g_own,        \* history: for each live handle, the middleware added on its lineage
    g_at,         \* history: the argument of the last at() call
    sel           \* history: the registration the outer router selected for the request

vars == <<phase, app_mw, router, builders, req, cur, stack, resp, mode, log,
          g_router, g_own, g_at, sel>>

(***************************************************************************)
(* Bounds                                                                  *)
(***************************************************************************)
MaxCalls == 2       \* registration calls: get, post, ..., all, nest
MaxMw == 1          \* middleware() calls a Route handle adds to what it inherited
MaxAppMw == 1       \* length of the app-level middleware list
MaxDepth == 2       \* segments of the path a Route handle may be extended from

(***************************************************************************)
(* Strings                                                                 *)
(***************************************************************************)
SLASH == "/"
WILDCARD == "*--tide-path-rest"
REST == "--tide-path-rest"

ends_with(s, c) == Len(s) > 0 /\ s[Len(s)] = c
starts_with(s, c) == Len(s) > 0 /\ s[1] = c
IsPrefix(p, s) == Len(p) <= Len(s) /\ SubSeq(s, 1, Len(p)) = p
Range(s) == {s[i] : i \in DOMAIN s}
Last(s) == s[Len(s)]
Front(s) == SubSeq(s, 1, Len(s) - 1)
\* The number of segments of a path.
Depth(path) == Cardinality({i \in DOMAIN path : path[i] # SLASH})
Drop(s, n) == SubSeq(s, n + 1, Len(s))
RECURSIVE Reverse(_)
Reverse(s) == IF s = <<>> THEN <<>> ELSE Append(Reverse(Tail(s)), Head(s))

(***************************************************************************)
(* Endpoints.  An endpoint is the user's handler (echo_path of the tests,  *)
(* told apart by id), a prefix-stripping wrapper, a middleware wrapper, a  *)
(* mounted application, or the router's not-found handler.                 *)
(***************************************************************************)
echo_path(id) == [kind |-> "fn", id |-> id]
StripPrefixEndpoint_new(ep) == [kind |-> "strip", inner |-> ep]
wrap_with_middleware(ep, mw) == [kind |-> "mw", inner |-> ep, middleware |-> mw]
into_http_service(server) ==
    [kind |-> "service", router |-> server.router, middleware |-> server.middleware]
not_found_endpoint == [kind |-> "not_found"]

(***************************************************************************)
(* Router: add, add_all and route (spec.md 4.1).                           *)
(***************************************************************************)
ALL == "ALL"
Router_new == <<>>
Router_add(rt, path, method, ep) ==
    Append(rt, [method |-> method, path |-> path, ep |-> ep])
Router_add_all(rt, path, ep) ==
    Append(rt, [method |-> ALL, path |-> path, ep |-> ep])

EmptyParams == [n \in {} |-> <<>>]
Params_find(params, key) ==
    IF key \in DOMAIN params THEN <<params[key]>> ELSE <<>>

IsRestPattern(pat) == ends_with(pat, WILDCARD)
\* A pattern without a rest capture matches the path equal to it; a pattern
\* ending in a rest capture matches the paths that continue its literal part
\* with a non-empty remainder, slashes included.
Matches(pat, path) ==
    IF IsRestPattern(pat)
    THEN IsPrefix(Front(pat), path) /\ Len(path) > Len(pat) - 1
    ELSE pat = path
MatchParams(pat, path) ==
    IF IsRestPattern(pat)
    THEN [n \in {REST} |-> SubSeq(path, Len(pat), Len(path))]
    ELSE EmptyParams
\* Literal segments win over captures: an exact pattern first, then the rest
\* pattern with the longest literal part.
Specificity(pat) == IF IsRestPattern(pat) THEN Len(pat) - 1 ELSE Len(pat) + 1
Recognize(rt, method, path) ==
    LET cand == {i \in DOMAIN rt : rt[i].method = method /\ Matches(rt[i].path, path)}
    IN  IF cand = {} THEN 0
        ELSE CHOOSE i \in cand :
               \A j \in cand : \/ Specificity(rt[j].path) < Specificity(rt[i].path)
                               \/ /\ Specificity(rt[j].path) = Specificity(rt[i].path)
                                  /\ j <= i
Router_route(rt, path, method) ==
    LET m == Recognize(rt, method, path)
        a == Recognize(rt, ALL, path)
    IN  IF m # 0
        THEN [index |-> m, endpoint |-> rt[m].ep, params |-> MatchParams(rt[m].path, path)]
        ELSE IF a # 0
        THEN [index |-> a, endpoint |-> rt[a].ep, params |-> MatchParams(rt[a].path, path)]
        ELSE [index |-> 0, endpoint |-> not_found_endpoint, params |-> EmptyParams]

(***************************************************************************)
(* Route (src/server/route.rs).  A handle is [router, path, middleware,    *)
(* prefix]; every method returns the handle after the call.                *)
(***************************************************************************)
\* Route::new taking the middleware of a registered route whose path is a
\* textual prefix of the new handle's path.
Route_new_Inherit(rt, path) ==
    LET above == {i \in DOMAIN rt : IsPrefix(rt[i].path, path) /\ rt[i].ep.kind = "mw"}
    IN  [router |-> rt, path |-> path,
         middleware |-> IF above = {} THEN <<>>
                        ELSE rt[CHOOSE i \in above : \A j \in above : i <= j].ep.middleware,
         prefix |-> FALSE]

Route_new(rt, path) ==
    [router |-> rt, path |-> path, middleware |-> <<>>, prefix |-> FALSE]

\* Route::at handing the child an empty middleware list.
Route_at_Fresh(self, path) ==
    LET p0 == self.path
        p1 == IF ~ends_with(p0, SLASH) /\ ~starts_with(path, SLASH)
              THEN p0 \o <<SLASH>> ELSE p0
        p2 == IF path # <<SLASH>> THEN p1 \o path ELSE p1
    IN  [router |-> self.router, path |-> p2, middleware |-> <<>>, prefix |-> FALSE]

Route_at(self, path) ==
    LET p0 == self.path
        p1 == IF ~ends_with(p0, SLASH) /\ ~starts_with(path, SLASH)
              THEN p0 \o <<SLASH>> ELSE p0
        p2 == IF path # <<SLASH>> THEN p1 \o path ELSE p1
    IN  [router |-> self.router, path |-> p2,
         middleware |-> self.middleware, prefix |-> FALSE]

Route_strip_prefix(self) == [self EXCEPT !.prefix = TRUE]

Route_middleware(self, m) == [self EXCEPT !.middleware = Append(@, m)]

\* Route::reset_middleware also unwrapping what is registered at the path.
Route_reset_middleware_Retro(self) ==
    [self EXCEPT
        !.middleware = <<>>,
        !.router = [i \in DOMAIN self.router |->
                      IF self.router[i].path = self.path /\ self.router[i].ep.kind = "mw"
                      THEN [self.router[i] EXCEPT !.ep = self.router[i].ep.inner]
                      ELSE self.router[i]]]

Route_reset_middleware(self) == [self EXCEPT !.middleware = <<>>]

\* Route::method wrapping a second time for the wildcard registration.
Route_method_Rewrapped(self, method, ep) ==
    IF self.prefix
    THEN LET sp == StripPrefixEndpoint_new(ep)
             e  == IF self.middleware = <<>> THEN sp
                   ELSE wrap_with_middleware(sp, self.middleware)
             sp2 == StripPrefixEndpoint_new(e)
             e2 == IF self.middleware = <<>> THEN sp2
                   ELSE wrap_with_middleware(sp2, self.middleware)
             r1 == Router_add(self.router, self.path, method, e)
             wildcard == Route_at([self EXCEPT !.router = r1], <<WILDCARD>>)
         IN  [self EXCEPT !.router = Router_add(wildcard.router, wildcard.path, method, e2)]
    ELSE LET e == IF self.middleware = <<>> THEN ep
                  ELSE wrap_with_middleware(ep, self.middleware)
         IN  [self EXCEPT !.router = Router_add(self.router, self.path, method, e)]

\* Route::method wrapping the endpoint with the list in the opposite order.
\* Route::method registering at the handle's own path only, also in prefix
\* mode.
Route_method_ExactOnly(self, method, ep) ==
    LET sp == IF self.prefix THEN StripPrefixEndpoint_new(ep) ELSE ep
        e  == IF self.middleware = <<>> THEN sp ELSE wrap_with_middleware(sp, self.middleware)
    IN  [self EXCEPT !.router = Router_add(self.router, self.path, method, e)]

Route_method_Reversed(self, method, ep) ==
    LET mw == Reverse(self.middleware)
        sp == IF self.prefix THEN StripPrefixEndpoint_new(ep) ELSE ep
        e  == IF mw = <<>> THEN sp ELSE wrap_with_middleware(sp, mw)
        r1 == Router_add(self.router, self.path, method, e)
        wildcard == Route_at([self EXCEPT !.router = r1], <<WILDCARD>>)
    IN  IF self.prefix
        THEN [self EXCEPT !.router = Router_add(wildcard.router, wildcard.path, method, e)]
        ELSE [self EXCEPT !.router = r1]

Route_method(self, method, ep) ==
    IF self.prefix
    THEN LET sp == StripPrefixEndpoint_new(ep)
             e  == IF self.middleware = <<>> THEN sp
                   ELSE wrap_with_middleware(sp, self.middleware)
             r1 == Router_add(self.router, self.path, method, e)
             wildcard == Route_at([self EXCEPT !.router = r1], <<WILDCARD>>)
         IN  [self EXCEPT !.router = Router_add(wildcard.router, wildcard.path, method, e)]
    ELSE LET e == IF self.middleware = <<>> THEN ep
                  ELSE wrap_with_middleware(ep, self.middleware)
         IN  [self EXCEPT !.router = Router_add(self.router, self.path, method, e)]

\* Route::all registering at the handle's own path only, also in prefix mode.
Route_all_ExactOnly(self, ep) ==
    LET sp == IF self.prefix THEN StripPrefixEndpoint_new(ep) ELSE ep
        e  == IF self.middleware = <<>> THEN sp ELSE wrap_with_middleware(sp, self.middleware)
    IN  [self EXCEPT !.router = Router_add_all(self.router, self.path, e)]

\* Route::all registering in the structure of one method.
Route_all_AsGet(self, ep) ==
    LET sp == IF self.prefix THEN StripPrefixEndpoint_new(ep) ELSE ep
        e  == IF self.middleware = <<>> THEN sp ELSE wrap_with_middleware(sp, self.middleware)
        r1 == Router_add(self.router, self.path, "GET", e)
        wildcard == Route_at([self EXCEPT !.router = r1], <<WILDCARD>>)
    IN  IF self.prefix
        THEN [self EXCEPT !.router = Router_add(wildcard.router, wildcard.path, "GET", e)]
        ELSE [self EXCEPT !.router = r1]

Route_all(self, ep) ==
    IF self.prefix
    THEN LET sp == StripPrefixEndpoint_new(ep)
             e  == IF self.middleware = <<>> THEN sp
                   ELSE wrap_with_middleware(sp, self.middleware)
             r1 == Router_add_all(self.router, self.path, e)
             wildcard == Route_at([self EXCEPT !.router = r1], <<WILDCARD>>)
         IN  [self EXCEPT !.router = Router_add_all(wildcard.router, wildcard.path, e)]
    ELSE LET e == IF self.middleware = <<>> THEN ep
                  ELSE wrap_with_middleware(ep, self.middleware)
         IN  [self EXCEPT !.router = Router_add_all(self.router, self.path, e)]

\* Route::nest mounting the application bare of the handle's middleware.
Route_nest_Bare(self, service) ==
    LET s1 == [self EXCEPT !.prefix = TRUE, !.middleware = <<>>]
        s2 == Route_all(s1, into_http_service(service))
    IN  [s2 EXCEPT !.prefix = FALSE, !.middleware = self.middleware]

\* Route::nest putting back the flag the handle had before the call.
Route_nest_KeepFlag(self, service) ==
    LET s1 == [self EXCEPT !.prefix = TRUE]
        s2 == Route_all(s1, into_http_service(service))
    IN  [s2 EXCEPT !.prefix = self.prefix]

Route_nest(self, service) ==
    LET s1 == [self EXCEPT !.prefix = TRUE]
        s2 == Route_all(s1, into_http_service(service))
    IN  [s2 EXCEPT !.prefix = FALSE]

(***************************************************************************)
(* Server (spec.md 2 and 4.5): the router and the app-level middleware.    *)
(***************************************************************************)
Server_new == [router |-> Router_new, middleware |-> <<>>]
Server_middleware(server, m) == [server EXCEPT !.middleware = Append(@, m)]
Server_at(server, path) == Route_new(server.router, path)

(***************************************************************************)
(* Responses (spec.md 3): status, header list, body.                       *)
(***************************************************************************)
Response_new(status) == [status |-> status, headers |-> <<>>, body |-> <<>>]
Response_set_header(res, name, value) ==
    [res EXCEPT !.headers =
        Append(SelectSeq(@, LAMBDA h : h[1] # name), <<name, value>>)]
Response_append_header(res, name, value) ==
    [res EXCEPT !.headers = Append(@, <<name, value>>)]
Response_body_string(res, s) == [res EXCEPT !.body = s]
Response_header(res, name) ==
    LET hs == SelectSeq(res.headers, LAMBDA h : h[1] = name)
    IN  IF hs = <<>> THEN <<>> ELSE <<hs[1][2]>>

String_into_response(s) ==
    Response_body_string(
        Response_set_header(Response_new(200), "Content-Type", "text/plain; charset=utf-8"),
        s)

(***************************************************************************)
(* Requests (src/request.rs).  An absent header is the empty sequence, a   *)
(* present one a one-element sequence.                                     *)
(***************************************************************************)
Request_new(method, path, origin, route_params) ==
    [method |-> method, path |-> path, origin |-> origin, route_params |-> route_params]

\* str::parse::<T>() for the target types String and u8: the outcome is
\* Ok(value) or Err.
Digits == [c \in {"1", "2"} |-> IF c = "1" THEN 1 ELSE 2]
str_parse(T, v) ==
    IF T = "String" THEN [ok |-> TRUE, str |-> v, num |-> 0]
    ELSE IF v \in DOMAIN Digits THEN [ok |-> TRUE, str |-> "", num |-> Digits[v]]
    ELSE [ok |-> FALSE, str |-> "", num |-> 0]

\* Request::param scanning the sequence from the outermost match.
Request_param_First(r, key, T) ==
    LET found == SelectSeq(r.route_params, LAMBDA params : Params_find(params, key) # <<>>)
    IN  IF found = <<>> THEN [panic |-> TRUE, value |-> str_parse("String", "")]
        ELSE [panic |-> FALSE, value |-> str_parse(T, Params_find(found[1], key)[1])]

\* Request::param: iter().rev().filter_map(find).next().unwrap().parse()
Request_param(r, key, T) ==
    LET found == SelectSeq(Reverse(r.route_params),
                           LAMBDA params : Params_find(params, key) # <<>>)
    IN  IF found = <<>> THEN [panic |-> TRUE, value |-> str_parse("String", "")]
        ELSE [panic |-> FALSE, value |-> str_parse(T, Params_find(found[1], key)[1])]

\* Request::rest scanning the whole sequence from the back, as param does.
Request_rest_Scan(r) ==
    LET found == SelectSeq(Reverse(r.route_params),
                           LAMBDA params : Params_find(params, REST) # <<>>)
    IN  IF found = <<>> THEN <<>> ELSE Params_find(found[1], REST)

Request_rest(r) ==
    IF r.route_params = <<>> THEN <<>>
    ELSE Params_find(Last(r.route_params), REST)

(***************************************************************************)
(* The middleware of tests/route_middleware.rs: runs the rest of the chain *)
(* and sets one header on the response.                                    *)
(***************************************************************************)
TestMiddleware(name, value) ==
    [kind |-> "test", name |-> name, value |-> value]
TestMiddleware_after(self, res) == Response_set_header(res, self.name, self.value)

(***************************************************************************)
(* Cors (src/middleware/cors.rs)                                           *)
(***************************************************************************)
DEFAULT_MAX_AGE == "86400"
DEFAULT_METHODS == "GET, POST, OPTIONS"
WILDCARD_ORIGIN == "*"
Origin_Any == [kind |-> "Any", list |-> <<>>]
Origin_Exact(s) == [kind |-> "Exact", list |-> <<s>>]
Origin_List(l) == [kind |-> "List", list |-> l]
Origin_from_str(s) == IF s = "*" THEN Origin_Any ELSE Origin_Exact(s)
Origin_from_list(l) == IF Len(l) = 1 THEN Origin_from_str(l[1]) ELSE Origin_List(l)

Cors_new ==
    [kind |-> "cors", name |-> "Cors",
     allow_credentials |-> <<>>, allow_headers |-> WILDCARD_ORIGIN,
     allow_methods |-> DEFAULT_METHODS, allow_origin |-> Origin_Any,
     expose_headers |-> <<>>, max_age |-> DEFAULT_MAX_AGE]
Cors_allow_origin(self, origin) == [self EXCEPT !.allow_origin = origin]
Cors_allow_methods(self, methods) == [self EXCEPT !.allow_methods = methods]
Cors_allow_credentials(self, b) ==
    [self EXCEPT !.allow_credentials = <<IF b THEN "true" ELSE "false">>]
Cors_expose_headers(self, headers) == [self EXCEPT !.expose_headers = <<headers>>]

Cors_is_valid_origin(self, origin) ==
    CASE self.allow_origin.kind = "Any" -> TRUE
      [] self.allow_origin.kind = "Exact" -> self.allow_origin.list[1] = origin
      [] OTHER -> origin \in Range(self.allow_origin.list)

\* Cors::response_origin echoing the request's origin under every
\* configuration.
Cors_response_origin_Echo(self, origin) ==
    IF ~Cors_is_valid_origin(self, origin) THEN <<>> ELSE <<origin>>

Cors_response_origin(self, origin) ==
    IF ~Cors_is_valid_origin(self, origin) THEN <<>>
    ELSE IF self.allow_origin.kind = "Any" THEN <<WILDCARD_ORIGIN>>
    ELSE <<origin>>

AppendOptional(res, name, opt) ==
    IF opt = <<>> THEN res ELSE Response_append_header(res, name, opt[1])

Cors_build_preflight_response(self, origin) ==
    LET r0 == Response_new(200)
        r1 == Response_append_header(r0, "access-control-allow-origin", origin)
        r2 == Response_append_header(r1, "access-control-allow-methods", self.allow_methods)
        r3 == Response_append_header(r2, "access-control-allow-headers", self.allow_headers)
        r4 == Response_append_header(r3, "access-control-max-age", self.max_age)
        r5 == AppendOptional(r4, "access-control-allow-credentials", self.allow_credentials)
    IN  AppendOptional(r5, "access-control-expose-headers", self.expose_headers)

Cors_origin_of(r) == IF r.origin = <<>> THEN "" ELSE r.origin[1]

\* Cors::handle refusing a request that carries no Origin header.
Cors_handle_before_RequireOrigin(self, r) ==
    LET origin == Cors_origin_of(r)
    IN  IF r.origin = <<>> \/ ~Cors_is_valid_origin(self, origin) THEN <<Response_new(401)>>
        ELSE IF r.method = "OPTIONS"
        THEN <<Cors_build_preflight_response(self, origin)>>
        ELSE <<>>

\* Cors::handle without the preflight branch.
Cors_handle_before_NoPreflight(self, r) ==
    IF ~Cors_is_valid_origin(self, Cors_origin_of(r)) THEN <<Response_new(401)>> ELSE <<>>

\* Cors::handle testing for the preflight before the origin.
Cors_handle_before_PreflightFirst(self, r) ==
    LET origin == Cors_origin_of(r)
    IN  IF r.method = "OPTIONS"
        THEN <<Cors_build_preflight_response(self, origin)>>
        ELSE IF ~Cors_is_valid_origin(self, origin) THEN <<Response_new(401)>>
        ELSE <<>>

\* Cors::handle up to the continuation: the response it answers with itself,
\* or the empty sequence when it runs the rest of the chain.
Cors_handle_before(self, r) ==
    LET origin == Cors_origin_of(r)
    IN  IF ~Cors_is_valid_origin(self, origin) THEN <<Response_new(401)>>
        ELSE IF r.method = "OPTIONS"
        THEN <<Cors_build_preflight_response(self, origin)>>
        ELSE <<>>

\* Cors::handle after the continuation returned.
Cors_handle_after(self, origin, res) ==
    LET r1 == Response_append_header(res, "access-control-allow-origin",
                                     Cors_response_origin(self, origin)[1])
        r2 == AppendOptional(r1, "access-control-allow-credentials", self.allow_credentials)
    IN  AppendOptional(r2, "access-control-expose-headers", self.expose_headers)

\* What a middleware does with the request before the continuation.
Middleware_before(m, r) ==
    IF m.kind = "cors" THEN Cors_handle_before(m, r) ELSE <<>>
\* What a middleware does with the downstream response.
Middleware_after(m, origin, res) ==
    IF m.kind = "cors" THEN Cors_handle_after(m, origin, res)
    ELSE TestMiddleware_after(m, res)

(***************************************************************************)
(* StripPrefixEndpoint::call: the request with its path rewritten.         *)
(***************************************************************************)
StripPrefixEndpoint_rewrite(r) ==
    LET rest == IF Request_rest(r) = <<>> THEN <<>> ELSE Request_rest(r)[1]
    IN  [r EXCEPT !.path = <<SLASH>> \o rest]

(***************************************************************************)
(* Inputs                                                                  *)
(***************************************************************************)
TopPaths == { <<SLASH, "a">>, <<SLASH, "a", SLASH, "b">> }
SubPaths == { <<"b">> }
Methods == {"GET"}
ReqMethods == {"GET", "POST"}
ReqPaths == { <<SLASH, "a">>, <<SLASH, "a", SLASH, "b">>,
              <<SLASH, "a", SLASH, "b", SLASH, "b">> }
ALLOW_ORIGIN == "example.com"
Origins == { <<ALLOW_ORIGIN>>, <<"unauthorize-origin.net">> }
CorsExact == Cors_allow_origin(Cors_new, Origin_from_str(ALLOW_ORIGIN))
RouteMws == { TestMiddleware("X-Foo", "foo"), CorsExact }
AppMws == { TestMiddleware("X-Root", "root") }

\* The application nested by tests/route_middleware.rs, with a second
\* middleware on its route: app-level X-Inner, and GET /b behind X-Baz, X-Qux.
InnerAppMw == << TestMiddleware("X-Inner", "inner") >>
InnerRouteMw == << TestMiddleware("X-Baz", "baz"), TestMiddleware("X-Qux", "qux") >>
InnerPath == <<SLASH, "b">>
InnerEndpoint == echo_path(0)
InnerServer ==
    LET s0 == Server_middleware(Server_new, InnerAppMw[1])
        r0 == Server_at(s0, InnerPath)
        r1 == Route_middleware(Route_middleware(r0, InnerRouteMw[1]), InnerRouteMw[2])
        r2 == Route_method(r1, "GET", InnerEndpoint)
    IN  [s0 EXCEPT !.router = r2.router]

(***************************************************************************)
(* State                                                                   *)
(***************************************************************************)
NoRequest == Request_new("", <<>>, <<>>, <<>>)
NoResponse == Response_new(0)
Idle == [kind |-> "none"]

Init ==
    /\ phase = "setup"
    /\ app_mw = <<>>
    /\ router = Router_new
    /\ builders = <<>>
    /\ req = NoRequest
    /\ cur = Idle
    /\ stack = <<>>
    /\ resp = NoResponse
    /\ mode = "idle"
    /\ log = <<>>
    /\ g_router = <<>>
    /\ g_own = <<>>
    /\ g_at = <<>>
    /\ sel = -1

reqvars == <<req, cur, stack, resp, mode, log, sel>>

Top == builders[Len(builders)]
Handle(b) == [router |-> router, path |-> b.path,
              middleware |-> b.middleware, prefix |-> b.prefix]
Fields(r) == [path |-> r.path, middleware |-> r.middleware, prefix |-> r.prefix]
Self == Handle(Top)
SetSelf(r) ==
    /\ builders' = [builders EXCEPT ![Len(builders)] = Fields(r)]
    /\ router' = r.router
Registered(method, path) ==
    \E i \in DOMAIN router : router[i].method = method /\ router[i].path = path
NCalls == IF g_router = <<>> THEN 0 ELSE Last(g_router).call
\* What the history keeps of a registration made through the top handle.
Made(method, prefix, nested) ==
    [call |-> NCalls + 1, method |-> method, path |-> Top.path,
     mw |-> Last(g_own), prefix |-> prefix, nested |-> nested,
     depth |-> Len(builders)]
\* The call registers nothing that is registered already.
Free(method, prefix) ==
    /\ ~Registered(method, Top.path)
    /\ prefix => ~Registered(method, Route_at(Self, <<WILDCARD>>).path)
History(rt, made) == [i \in 1..(Len(rt) - Len(router)) |-> made]

(***************************************************************************)
(* Building the application                                                *)
(***************************************************************************)
\* Server::middleware
ServerMiddleware(m) ==
    /\ phase = "setup" /\ builders = <<>>
    /\ app_mw' = Server_middleware([router |-> router, middleware |-> app_mw], m).middleware
    /\ UNCHANGED <<phase, router, builders, g_router, g_own, g_at>>
    /\ UNCHANGED reqvars

\* Server::at
ServerAt(path) ==
    /\ phase = "setup" /\ builders = <<>>
    /\ builders' = <<Fields(Server_at([router |-> router, middleware |-> app_mw], path))>>
    /\ g_own' = << <<>> >>
    /\ UNCHANGED <<phase, app_mw, router, g_router, g_at>>
    /\ UNCHANGED reqvars

\* Route::at
RouteAt(path) ==
    /\ phase = "setup" /\ builders # <<>>
    /\ builders' = Append(builders, Fields(Route_at(Self, path)))
    /\ g_own' = Append(g_own, Last(g_own))
    /\ UNCHANGED <<phase, app_mw, router, g_router, g_at>>
    /\ UNCHANGED reqvars

\* The top handle goes out of scope; its parent is usable again.
DropRoute ==
    /\ phase = "setup" /\ builders # <<>>
    /\ builders' = Front(builders)
    /\ g_own' = Front(g_own)
    /\ UNCHANGED <<phase, app_mw, router, g_router, g_at>>
    /\ UNCHANGED reqvars

\* Route::strip_prefix
StripPrefix ==
    /\ phase = "setup" /\ builders # <<>>
    /\ SetSelf(Route_strip_prefix(Self))
    /\ UNCHANGED <<phase, app_mw, g_router, g_own, g_at>>
    /\ UNCHANGED reqvars

\* Route::middleware
RouteMiddleware(m) ==
    /\ phase = "setup" /\ builders # <<>>
    /\ SetSelf(Route_middleware(Self, m))
    /\ g_own' = [g_own EXCEPT ![Len(g_own)] = Append(@, m)]
    /\ UNCHANGED <<phase, app_mw, g_router, g_at>>
    /\ UNCHANGED reqvars

\* Route::reset_middleware
ResetMiddleware ==
    /\ phase = "setup" /\ builders # <<>>
    /\ SetSelf(Route_reset_middleware(Self))
    /\ g_own' = [g_own EXCEPT ![Len(g_own)] = <<>>]
    /\ UNCHANGED <<phase, app_mw, g_router, g_at>>
    /\ UNCHANGED reqvars

\* Route::get, post, ...: Route::method with the user's handler
Method(method) ==
    /\ phase = "setup" /\ builders # <<>>
    /\ Free(method, Top.prefix)
    /\ LET r == Route_method(Self, method, echo_path(NCalls + 1))
       IN  /\ SetSelf(r)
           /\ g_router' = g_router \o History(r.router, Made(method, Top.prefix, FALSE))
    /\ UNCHANGED <<phase, app_mw, g_own, g_at>>
    /\ UNCHANGED reqvars

\* Route::all with the user's handler
All ==
    /\ phase = "setup" /\ builders # <<>>
    /\ Free(ALL, Top.prefix)
    /\ LET r == Route_all(Self, echo_path(NCalls + 1))
       IN  /\ SetSelf(r)
           /\ g_router' = g_router \o History(r.router, Made(ALL, Top.prefix, FALSE))
    /\ UNCHANGED <<phase, app_mw, g_own, g_at>>
    /\ UNCHANGED reqvars

\* Route::nest
Nest ==
    /\ phase = "setup" /\ builders # <<>>
    /\ Free(ALL, TRUE)
    /\ LET r == Route_nest(Self, InnerServer)
       IN  /\ SetSelf(r)
           /\ g_router' = g_router \o History(r.router, Made(ALL, TRUE, TRUE))
    /\ UNCHANGED <<phase, app_mw, g_own, g_at>>
    /\ UNCHANGED reqvars

\* Server::into_http_service: the application is built and starts serving.
IntoHttpService ==
    /\ phase = "setup" /\ builders = <<>>
    /\ phase' = "serving"
    /\ UNCHANGED <<app_mw, router, builders, g_router, g_own, g_at>>
    /\ UNCHANGED reqvars

(***************************************************************************)
(* Serving one request.  A Next continuation is [next_middleware,          *)
(* endpoint]; `stack` holds the layers that ran the continuation and wait  *)
(* for its response.                                                       *)
(***************************************************************************)
setupvars == <<phase, app_mw, router, builders, g_router, g_own, g_at>>

Next_new(endpoint, middleware) ==
    [kind |-> "next", next_middleware |-> middleware, endpoint |-> endpoint]
CallEndpoint(ep) == [kind |-> "endpoint", endpoint |-> ep]
\* Next::run: the first middleware of the sequence with the continuation over
\* the rest, or nothing and the continuation itself when the sequence is exhausted.
Next_run_Skip(next) ==
    IF next.next_middleware # <<>>
    THEN [current |-> <<Head(next.next_middleware)>>,
          next |-> Next_new(next.endpoint, Drop(next.next_middleware, 2))]
    ELSE [current |-> <<>>, next |-> next]

Next_run(next) ==
    IF next.next_middleware # <<>>
    THEN [current |-> <<Head(next.next_middleware)>>,
          next |-> Next_new(next.endpoint, Tail(next.next_middleware))]
    ELSE [current |-> <<>>, next |-> next]

Layer(m, r) == [mw |-> m, origin |-> Cors_origin_of(r), level |-> Len(r.route_params)]

\* An event of the history: what happened, to what, and inside how many services.
Ev(ev, what, level) == [ev |-> ev, what |-> what, level |-> level]
Level == Len(req.route_params)

\* The request arrives at the application's service.
Call(method, path, origin) ==
    /\ phase = "serving" /\ mode = "idle"
    /\ req' = Request_new(method, path, origin, <<>>)
    /\ cur' = CallEndpoint(into_http_service([router |-> router, middleware |-> app_mw]))
    /\ mode' = "call"
    /\ log' = <<Ev("call", <<method, path>>, 0)>>
    /\ UNCHANGED <<stack, resp, sel>>
    /\ UNCHANGED setupvars

\* Next::run: the next middleware of the sequence, or the endpoint when the
\* sequence is exhausted.
NextRun ==
    /\ mode = "call" /\ cur.kind = "next"
    /\ IF Next_run(cur).current # <<>>
       THEN LET current == Next_run(cur).current[1]
                next == Next_run(cur).next
                answer == Middleware_before(current, req)
            IN  IF answer = <<>>
                THEN /\ cur' = next
                     /\ stack' = Append(stack, Layer(current, req))
                     /\ log' = Append(log, Ev("pre", current, Level))
                     /\ UNCHANGED <<resp, mode>>
                ELSE /\ resp' = answer[1]
                     /\ mode' = "return"
                     /\ cur' = Idle
                     /\ log' = Append(log, Ev("short", current, Level))
                     /\ UNCHANGED stack
       ELSE /\ cur' = CallEndpoint(cur.endpoint)
            /\ UNCHANGED <<stack, resp, mode, log>>
    /\ UNCHANGED <<req, sel>>
    /\ UNCHANGED setupvars

\* Endpoint::call of the user's handler: echo_path answers with the path it sees.
HandlerCall ==
    /\ mode = "call" /\ cur.kind = "endpoint" /\ cur.endpoint.kind = "fn"
    /\ resp' = String_into_response(req.path)
    /\ log' = Append(log, Ev("endpoint", <<cur.endpoint.id, req.path>>, Level))
    /\ mode' = "return"
    /\ cur' = Idle
    /\ UNCHANGED <<req, stack, sel>>
    /\ UNCHANGED setupvars

\* The router's handler for a request no registration matches.
NotFoundCall ==
    /\ mode = "call" /\ cur.kind = "endpoint" /\ cur.endpoint.kind = "not_found"
    /\ resp' = Response_new(404)
    /\ log' = Append(log, Ev("not_found", <<>>, Level))
    /\ mode' = "return"
    /\ cur' = Idle
    /\ UNCHANGED <<req, stack, sel>>
    /\ UNCHANGED setupvars

\* MiddlewareEndpoint::call: a fresh continuation over the captured list.
MiddlewareEndpointCall ==
    /\ mode = "call" /\ cur.kind = "endpoint" /\ cur.endpoint.kind = "mw"
    /\ cur' = Next_new(cur.endpoint.inner, cur.endpoint.middleware)
    /\ UNCHANGED <<req, stack, resp, mode, log, sel>>
    /\ UNCHANGED setupvars

\* StripPrefixEndpoint::call
StripPrefixCall ==
    /\ mode = "call" /\ cur.kind = "endpoint" /\ cur.endpoint.kind = "strip"
    /\ req' = StripPrefixEndpoint_rewrite(req)
    /\ cur' = CallEndpoint(cur.endpoint.inner)
    /\ log' = Append(log, Ev("strip", req'.path, Level))
    /\ UNCHANGED <<stack, resp, mode, sel>>
    /\ UNCHANGED setupvars

\* Service::call: route, push the match's params, run the app-level chain.
ServiceCall ==
    /\ mode = "call" /\ cur.kind = "endpoint" /\ cur.endpoint.kind = "service"
    /\ LET s == Router_route(cur.endpoint.router, req.path, req.method)
       IN  /\ req' = [req EXCEPT !.route_params = Append(@, s.params)]
           /\ cur' = Next_new(s.endpoint, cur.endpoint.middleware)
           /\ sel' = IF sel = -1 THEN s.index ELSE sel
           /\ log' = Append(log, Ev("route", s.index, Level + 1))
    /\ UNCHANGED <<stack, resp, mode>>
    /\ UNCHANGED setupvars

\* The response reaches the innermost waiting layer, which post-processes it.
Return ==
    /\ mode = "return" /\ stack # <<>>
    /\ resp' = Middleware_after(Last(stack).mw, Last(stack).origin, resp)
    /\ log' = Append(log, Ev("post", Last(stack).mw, Last(stack).level))
    /\ stack' = Front(stack)
    /\ UNCHANGED <<req, cur, mode, sel>>
    /\ UNCHANGED setupvars

\* The response leaves the service.
Respond ==
    /\ mode = "return" /\ stack = <<>>
    /\ mode' = "done"
    /\ UNCHANGED <<req, cur, stack, resp, log, sel>>
    /\ UNCHANGED setupvars

Next ==
    \/ \E m \in AppMws : Len(app_mw) < MaxAppMw /\ ServerMiddleware(m)
    \/ \E p \in TopPaths : NCalls < MaxCalls /\ ServerAt(p)
    \/ \E p \in SubPaths :
          builders # <<>> /\ Depth(Top.path) < MaxDepth /\ RouteAt(p)
    \/ DropRoute
    \/ (builders # <<>> /\ ~Top.prefix /\ StripPrefix)
    \/ \E m \in RouteMws :
          builders # <<>> /\ Len(Top.middleware) < MaxMw * Len(builders) /\ RouteMiddleware(m)
    \/ (builders # <<>> /\ Top.middleware # <<>> /\ ResetMiddleware)
    \/ \E m \in Methods : NCalls < MaxCalls /\ Method(m)
    \/ (NCalls < MaxCalls /\ All)
    \/ (NCalls < MaxCalls /\ Nest)
    \/ IntoHttpService
    \/ \E m \in ReqMethods, p \in ReqPaths, o \in Origins : Call(m, p, o)
    \/ NextRun
    \/ HandlerCall
    \/ NotFoundCall
    \/ MiddlewareEndpointCall
    \/ StripPrefixCall
    \/ ServiceCall
    \/ Return
    \/ Respond

Spec == Init /\ [][Next]_vars

(***************************************************************************)
(* Reading the history                                                     *)
(***************************************************************************)
Whats(evs) == [k \in DOMAIN evs |-> evs[k].what]
\* The middleware the request entered inside `level` services, in order.
Entered(level) ==
    Whats(SelectSeq(log, LAMBDA e : e.ev \in {"pre", "short"} /\ e.level = level))
\* Those among them that ran the continuation.
Continued(level) ==
    Whats(SelectSeq(log, LAMBDA e : e.ev = "pre" /\ e.level = level))
\* The middleware that post-processed the response, in order.
Left(level) ==
    Whats(SelectSeq(log, LAMBDA e : e.ev = "post" /\ e.level = level))
EnteredAll == Whats(SelectSeq(log, LAMBDA e : e.ev \in {"pre", "short"}))
LeftAll == Whats(SelectSeq(log, LAMBDA e : e.ev = "post"))
Positions(evs) == {k \in DOMAIN log : log[k].ev \in evs}
ShortCircuited == Positions({"short"}) # {}
\* The outer router selected a registration, and its endpoint was invoked:
\* what lies behind the outer chain (the handler, the prefix stripping) ran.
Behind == {k \in DOMAIN log : log[k].ev \in {"endpoint", "strip"} /\ log[k].level = 1}
Selected == sel >= 1
OrigMethod == log[1].what[1]
OrigPath == log[1].what[2]
\* The chain of the selected registration: app-level, then what the handle
\* held when the registration was made.
Chain == app_mw \o g_router[sel].mw

(***************************************************************************)
(* C1.  For a request that reaches a registered endpoint the chain is the  *)
(* app-level middleware followed by the route-level middleware captured at *)
(* registration; the layers are entered in that order, each before the     *)
(* next and all before the endpoint, and left in the reverse order, all    *)
(* after the endpoint; none is skipped, repeated or reordered.             *)
(***************************************************************************)
C1_ChainOrder ==
    Selected =>
        /\ IsPrefix(Entered(1), Chain)
        /\ IsPrefix(Left(1), Reverse(Continued(1)))
        /\ Behind # {} =>
              /\ Entered(1) = Chain
              /\ Continued(1) = Chain
              /\ \A k \in Positions({"pre"}) : log[k].level = 1 =>
                    \A b \in Behind : k < b
              /\ \A k \in Positions({"post"}) : log[k].level = 1 =>
                    \A b \in Behind : b < k
        /\ (mode = "done" /\ Behind # {}) => Left(1) = Reverse(Chain)

\* A request went through an app-level layer and two route-level layers, the
\* second added on a child handle, to its handler and back.
C1_Witness ==
    /\ mode = "done" /\ Selected /\ Behind # {}
    /\ app_mw # <<>>
    /\ Len(g_router[sel].mw) = 2
    /\ g_router[sel].mw[1] # g_router[sel].mw[2]
    /\ Left(1) = Reverse(Chain)

(***************************************************************************)
(* C2.  In a chain of n middleware around an endpoint the continuation at  *)
(* position i holds the middleware after position i and runs middleware    *)
(* i+1, or the endpoint when i = n; after a layer answers without running  *)
(* the continuation nothing runs but the post-processing of the layers     *)
(* already entered; when no layer does so, exactly one endpoint runs.      *)
(***************************************************************************)
SelectedEndpoint == IF sel = 0 THEN not_found_endpoint ELSE router[sel].ep
C2_Continuation ==
    /\ (mode = "call" /\ cur.kind = "next" /\ Level = 1) =>
          IF cur.endpoint = SelectedEndpoint
          THEN cur.next_middleware = Drop(app_mw, Len(Entered(1)))
          ELSE /\ Selected
               /\ Len(Entered(1)) >= Len(app_mw)
               /\ cur.endpoint = router[sel].ep.inner
               /\ cur.next_middleware = Drop(g_router[sel].mw, Len(Entered(1)) - Len(app_mw))
    /\ \A k \in Positions({"short"}) : \A j \in DOMAIN log : j > k => log[j].ev = "post"
    /\ (mode = "done" /\ ~ShortCircuited) =>
          Cardinality(Positions({"endpoint", "not_found"})) = 1
    /\ (mode = "done" /\ ShortCircuited) => Positions({"endpoint", "not_found"}) = {}

\* A layer of a chain answered by itself after an outer layer had run the
\* continuation, with a layer and the endpoint still behind it.
C2_Witness ==
    /\ mode = "done" /\ Selected /\ ShortCircuited
    /\ Continued(1) # <<>>
    /\ Len(Entered(1)) < Len(Chain)
    /\ Left(1) = Reverse(Continued(1))

(***************************************************************************)
(* C3.  The list an endpoint is wrapped with is the handle's list at the   *)
(* moment of the registering call, and stays so whatever is called on the  *)
(* handles afterwards.                                                     *)
(***************************************************************************)
WrappedWith(ep) == IF ep.kind = "mw" THEN ep.middleware ELSE <<>>
C3_CapturedForever ==
    /\ Len(router) = Len(g_router)
    /\ \A i \in DOMAIN router :
          /\ WrappedWith(router[i].ep) = g_router[i].mw
          /\ router[i].method = g_router[i].method

\* A route registered behind a middleware, then one at the same path after
\* the list was emptied: a request to the first still ran the middleware.
C3_Witness ==
    /\ mode = "done" /\ Selected
    /\ g_router[sel].mw # <<>>
    /\ \E j \in DOMAIN g_router :
          /\ j > sel
          /\ g_router[j].path = g_router[sel].path
          /\ g_router[j].depth = g_router[sel].depth
          /\ g_router[j].mw = <<>>
          /\ WrappedWith(router[j].ep) = <<>>
    /\ Left(1) = Reverse(Chain)
    /\ Behind # {}

(***************************************************************************)
(* C4.  at() gives the child the parent's list, in the parent's order, and *)
(* leaves the parent as it was; whatever is called on the child changes    *)
(* the child alone.                                                        *)
(***************************************************************************)
C4_ChildCopy ==
    [][ /\ (builders # <<>> /\ Len(builders') = Len(builders) + 1) =>
              /\ Front(builders') = builders
              /\ Last(builders').middleware = Top.middleware
        /\ (builders # <<>> /\ Len(builders') = Len(builders)) =>
              /\ Front(builders') = Front(builders)
              /\ \/ Last(builders').middleware = Top.middleware
                 \/ Last(builders').middleware = <<>>
                 \/ Front(Last(builders').middleware) = Top.middleware
      ]_vars

\* A child that inherited its parent's middleware and added one of its own.
C4_Witness ==
    /\ Len(builders) = 2
    /\ builders[1].middleware # <<>>
    /\ Len(builders[2].middleware) = Len(builders[1].middleware) + 1
    /\ Front(builders[2].middleware) = builders[1].middleware
    /\ Last(builders[2].middleware) \notin Range(builders[1].middleware)

(***************************************************************************)
(* C5.  A route registered through a fresh top-level at() runs the         *)
(* app-level middleware and the middleware of its own lineage only: the    *)
(* middleware of another route whose path is a textual prefix of its path  *)
(* neither runs nor marks the response.                                    *)
(***************************************************************************)
C5_NoPrefixInheritance ==
    (Selected /\ g_router[sel].depth = 1) =>
        /\ Range(Entered(1)) \subseteq Range(Chain)
        /\ \A j \in DOMAIN g_router :
              (g_router[j].call # g_router[sel].call
                 /\ IsPrefix(g_router[j].path, g_router[sel].path)) =>
              \A m \in Range(g_router[j].mw) \ Range(Chain) :
                  /\ m \notin Range(EnteredAll)
                  /\ m \notin Range(LeftAll)
                  /\ mode = "done" => Response_header(resp, m.name) = <<>>

\* /a/b registered through a fresh at() next to /a, each behind a middleware
\* of its own: the request to /a/b ran its own and not that of /a.
C5_Witness ==
    /\ mode = "done" /\ Selected /\ g_router[sel].depth = 1 /\ Behind # {}
    /\ g_router[sel].mw # <<>>
    /\ \E j \in DOMAIN g_router :
          /\ g_router[j].call # g_router[sel].call
          /\ IsPrefix(g_router[j].path, g_router[sel].path)
          /\ g_router[j].path # g_router[sel].path
          /\ Range(g_router[j].mw) \ Range(Chain) # {}
    /\ \A m \in Range(g_router[sel].mw) : m.kind = "test" =>
          Response_header(resp, m.name) = <<m.value>>

(***************************************************************************)
(* C6.  A request to the path P of a prefix-mode registration, or to a     *)
(* deeper path P/t, with a matching method, is handled by the endpoint of  *)
(* that registration (no other registration matching the request), and the *)
(* endpoint sees the path "/" followed by t ("/" alone for P itself).      *)
(***************************************************************************)
\* The tail of path below P: <<>> for P itself, t for P/t; no tail otherwise.
TailBelow(P, path) ==
    IF path = P THEN <<<<>>>>
    ELSE IF IsPrefix(P \o <<SLASH>>, path) /\ Len(path) > Len(P) + 1
    THEN <<SubSeq(path, Len(P) + 2, Len(path))>>
    ELSE <<>>
Rewritten(P, path) == <<SLASH>> \o TailBelow(P, path)[1]
\* Registrations of other calls that match the request.
Competitors(i) ==
    {j \in DOMAIN router :
        /\ g_router[j].call # g_router[i].call
        /\ router[j].method \in {OrigMethod, ALL}
        /\ Matches(router[j].path, OrigPath)}
InnerHit == \E k \in Positions({"route"}) : log[k].level = 2 /\ log[k].what >= 1
InnerMiss == \E k \in Positions({"route"}) : log[k].level = 2 /\ log[k].what = 0
Terminal == Positions({"endpoint", "not_found"})
C7_NestedChain ==
    sel # -1 =>
    IF Selected /\ g_router[sel].nested
    THEN /\ IsPrefix(EnteredAll, Chain \o InnerAppMw \o InnerRouteMw)
         /\ InnerMiss => IsPrefix(EnteredAll, Chain \o InnerAppMw)
         /\ \A k \in Terminal :
               /\ EnteredAll = Chain \o InnerAppMw \o (IF InnerHit THEN InnerRouteMw ELSE <<>>)
               /\ \A j \in Positions({"pre"}) : j < k
               /\ \A j \in Positions({"post"}) : k < j
         /\ mode = "done" => LeftAll = Reverse(Continued(1) \o Continued(2))
         /\ (mode = "done" /\ ~ShortCircuited) => Terminal # {}
    ELSE /\ Range(EnteredAll) \cap (Range(InnerAppMw) \cup Range(InnerRouteMw)) = {}
         /\ \A j \in DOMAIN g_router :
               g_router[j].nested =>
                  \A m \in Range(g_router[j].mw) :
                     (sel = 0 \/ m \notin Range(Chain)) =>
                        /\ m \notin Range(EnteredAll)
                        /\ mode = "done" => Response_header(resp, m.name) = <<>>

\* A request to a route of the application nested behind a mount-point
\* middleware, with app-level middleware outside: all four groups ran.
C7_Witness ==
    /\ mode = "done" /\ Selected /\ g_router[sel].nested
    /\ app_mw # <<>> /\ g_router[sel].mw # <<>>
    /\ InnerHit
    /\ EnteredAll = app_mw \o g_router[sel].mw \o InnerAppMw \o InnerRouteMw
    /\ LeftAll = Reverse(EnteredAll)
    /\ \E k \in Positions({"endpoint"}) : log[k].what[1] = InnerEndpoint.id

(***************************************************************************)
(* C8.  A request is given to a route registered for its method when one   *)
(* matches its path, also when an all() registration matches; otherwise to *)
(* an all() registration that matches; otherwise it gets the not-found     *)
(* response and no endpoint runs.                                          *)
(***************************************************************************)
MatchingFor(method) ==
    {i \in DOMAIN g_router :
        g_router[i].method = method /\ Matches(router[i].path, OrigPath)}
C8_MethodThenAll ==
    sel # -1 =>
       /\ IF MatchingFor(OrigMethod) # {} THEN sel \in MatchingFor(OrigMethod)
          ELSE IF MatchingFor(ALL) # {} THEN sel \in MatchingFor(ALL)
          ELSE /\ sel = 0
               /\ Positions({"endpoint", "strip"}) = {}
               /\ mode = "done" => resp.status = 404
       /\ (Selected /\ ~g_router[sel].nested) =>
              \A k \in Positions({"endpoint"}) : log[k].what[1] = g_router[sel].call

\* A route for the request's method and an all() registration both matched;
\* the handler of the former answered.
C8_Witness ==
    /\ mode = "done" /\ Selected
    /\ MatchingFor(OrigMethod) # {} /\ MatchingFor(ALL) # {}
    /\ g_router[sel].method = OrigMethod
    /\ \E k \in Positions({"endpoint"}) : log[k].what[1] = g_router[sel].call

(***************************************************************************)
(* Route::at on its own: handles at the paths of AtPaths, extended by the  *)
(* sub-paths of AtSubs.                                                    *)
(***************************************************************************)
MaxAt == 2
AtPaths == { <<SLASH>>, <<SLASH, "a">>, <<SLASH, "a", SLASH>>,
             <<SLASH, "a", SLASH, "b">>, <<SLASH, "a", SLASH, "b", SLASH>> }
AtSubs == { <<>>, <<SLASH>>, <<"b">>, <<SLASH, "b">>, <<"b", SLASH>>,
            <<SLASH, "b", SLASH>>, <<WILDCARD>> }

InitAt ==
    /\ phase = "setup"
    /\ app_mw = <<>>
    /\ router = Router_new
    /\ \E path \in AtPaths : builders = <<Fields(Server_at(Server_new, path))>>
    /\ req = NoRequest
    /\ cur = Idle
    /\ stack = <<>>
    /\ resp = NoResponse
    /\ mode = "idle"
    /\ log = <<>>
    /\ g_router = <<>>
    /\ g_own = << <<>> >>
    /\ g_at = <<>>
    /\ sel = -1

\* Route::at, the argument kept in the history.
AtCall(path) ==
    /\ phase = "setup" /\ builders # <<>>
    /\ builders' = Append(builders, Fields(Route_at(Self, path)))
    /\ g_own' = Append(g_own, Last(g_own))
    /\ g_at' = <<path>>
    /\ UNCHANGED <<phase, app_mw, router, g_router>>
    /\ UNCHANGED reqvars

NextAt == \E path \in AtSubs : Len(builders) <= MaxAt /\ AtCall(path)
SpecAt == InitAt /\ [][NextAt]_vars

(***************************************************************************)
(* C9.  The child of at(s) on a handle at p has the path p and s joined by *)
(* exactly one "/": one slash where p ends with one or s starts with one   *)
(* or both, one inserted where neither does; at("/") leaves the path p.    *)
(***************************************************************************)
WithoutTrailingSlash(p) == IF ends_with(p, SLASH) THEN Front(p) ELSE p
WithoutLeadingSlash(s) == IF starts_with(s, SLASH) THEN Tail(s) ELSE s
C9_SingleSlashJoin ==
    g_at # <<>> =>
        LET p == builders[Len(builders) - 1].path
            s == g_at[1]
            child == Top.path
        IN  IF s = <<SLASH>> THEN child = p
            ELSE child = WithoutTrailingSlash(p) \o <<SLASH>> \o WithoutLeadingSlash(s)

(***************************************************************************)
(* Request::param on its own: requests carrying the Params sequences of    *)
(* ParamSeqs.                                                              *)
(***************************************************************************)
MaxParams == 2
Keys == {"id", "name"}
Values == {"1", "2", "x"}
Types == {"String", "u8"}
AllParams == UNION {[K -> Values] : K \in SUBSET Keys}
ParamSeqs == UNION {[1..n -> AllParams] : n \in 0..MaxParams}

InitParam ==
    /\ phase = "param"
    /\ app_mw = <<>>
    /\ router = Router_new
    /\ builders = <<>>
    /\ \E ps \in ParamSeqs : req = Request_new("GET", <<SLASH>>, <<>>, ps)
    /\ cur = Idle
    /\ stack = <<>>
    /\ resp = NoResponse
    /\ mode = "idle"
    /\ log = <<>>
    /\ g_router = <<>>
    /\ g_own = <<>>
    /\ g_at = <<>>
    /\ sel = -1

\* A handler calls req.param::<T>(key): the call returns or panics.
ParamCall(key, T) ==
    /\ phase = "param" /\ mode = "idle"
    /\ log' = <<Ev("param", <<key, T>>, Level)>>
    /\ LET r == Request_param(req, key, T)
       IN  /\ mode' = IF r.panic THEN "panic" ELSE "returned"
           /\ cur' = [kind |-> "result", value |-> r.value]
    /\ UNCHANGED <<req, stack, resp, sel>>
    /\ UNCHANGED setupvars

NextParam == \E key \in Keys, T \in Types : ParamCall(key, T)
SpecParam == InitParam /\ [][NextParam]_vars

(***************************************************************************)
(* C10.  param(key) returns the parse of the value the last element of the *)
(* Params sequence that defines key binds to it, and panics when no        *)
(* element defines key.                                                    *)
(***************************************************************************)
Defining(key) == {i \in DOMAIN req.route_params : key \in DOMAIN req.route_params[i]}
Innermost(key) == CHOOSE i \in Defining(key) : \A j \in Defining(key) : j <= i
C10_LastDefinitionOrPanic ==
    (phase = "param" /\ mode # "idle") =>
        LET key == log[1].what[1]
            T == log[1].what[2]
        IN  IF Defining(key) = {} THEN mode = "panic"
            ELSE /\ mode = "returned"
                 /\ cur.value = str_parse(T, req.route_params[Innermost(key)][key])

\* The outer and the inner match bind the key to different values; the call
\* returned the inner one.
C10_Witness ==
    /\ phase = "param" /\ mode = "returned"
    /\ Len(req.route_params) = 2
    /\ "id" \in DOMAIN req.route_params[1] /\ "id" \in DOMAIN req.route_params[2]
    /\ req.route_params[1]["id"] = "1" /\ req.route_params[2]["id"] = "2"
    /\ log[1].what = <<"id", "u8">>
    /\ cur.value = [ok |-> TRUE, str |-> "", num |-> 2]

(***************************************************************************)
(* The request body (src/request.rs).  A body is a byte stream: the bytes  *)
(* it delivers, or a stream that breaks while it is read.  Bytes are       *)
(* tokens; "0xFF" is a byte that is not valid UTF-8.                       *)
(***************************************************************************)
Body_empty == [bytes |-> <<>>, broken |-> FALSE]
Body_from(bytes) == [bytes |-> bytes, broken |-> FALSE]
Body_broken == [bytes |-> <<>>, broken |-> TRUE]

NoError == [variant |-> "none", kind |-> ""]
Error_Hyper == [variant |-> "Hyper", kind |-> "body"]
Error_IO(kind) == [variant |-> "IO", kind |-> kind]
Error_Response(r) == [variant |-> "Response", kind |-> "", response |-> r]
Ok(v) == [ok |-> TRUE, value |-> v, err |-> NoError]
Err(e) == [ok |-> FALSE, value |-> <<>>, err |-> e]

\* IntoResponse for Error: the result is the response, or the call aborts.
Error_into_response(e) ==
    IF e.variant = "Response" THEN [panic |-> FALSE, response |-> e.response]
    ELSE [panic |-> TRUE, response |-> NoResponse]

\* The target types of the typed reads: a struct with the field msg: String
\* and one with msg: Option<String>.
REQUIRED == "Required"
OPTIONAL == "Optional"
Targets == {REQUIRED, OPTIONAL}
Decoded(msg) == [msg |-> msg]

\* hyper::body::aggregate(body).await?.to_bytes()
hyper_body_aggregate(body) ==
    IF body.broken THEN Err(Error_Hyper) ELSE Ok(body.bytes)
\* String::from_utf8
String_from_utf8(bytes) ==
    IF "0xFF" \in Range(bytes) THEN Err(Error_IO("InvalidData")) ELSE Ok(bytes)
\* serde_json::from_slice::<T>: the input must be one JSON document; the
\* empty input is none.
serde_json_from_slice(bytes, T) ==
    IF Len(bytes) = 5 /\ bytes[1] = "{" /\ bytes[2] = "msg" /\ bytes[3] = ":" /\ bytes[5] = "}"
    THEN Ok(Decoded(<<bytes[4]>>))
    ELSE IF bytes = <<"{", "}">> /\ T = OPTIONAL THEN Ok(Decoded(<<>>))
    ELSE Err(Error_IO("InvalidData"))
\* serde_qs::from_bytes::<T>: key=value pairs; the empty input has no pair.
serde_qs_from_bytes(bytes, T) ==
    IF Len(bytes) = 3 /\ bytes[1] = "msg" /\ bytes[2] = "="
    THEN Ok(Decoded(<<bytes[3]>>))
    ELSE IF bytes = <<>> /\ T = OPTIONAL THEN Ok(Decoded(<<>>))
    ELSE Err(Error_IO("Other"))

\* Each read returns the request after the call and the call's result.
\* Request::body_bytes leaving the body where it is.
Request_body_bytes_Keep(r) ==
    [req |-> r, result |-> hyper_body_aggregate(r.body)]

\* Request::body_bytes
Request_body_bytes(r) ==
    LET body == r.body
    IN  [req |-> [r EXCEPT !.body = Body_empty], result |-> hyper_body_aggregate(body)]

\* Request::body_string
Request_body_string(r) ==
    LET b == Request_body_bytes(r)
    IN  [req |-> b.req,
         result |-> IF b.result.ok THEN String_from_utf8(b.result.value) ELSE b.result]

\* Request::body_raw
Request_body_raw(r) ==
    [req |-> [r EXCEPT !.body = Body_empty], result |-> Ok(r.body)]

\* Request::body_json
Request_body_json(r, T) ==
    LET b == Request_body_bytes(r)
    IN  [req |-> b.req,
         result |-> IF b.result.ok THEN serde_json_from_slice(b.result.value, T)
                    ELSE b.result]

\* Request::body_form
Request_body_form(r, T) ==
    LET b == Request_body_bytes(r)
    IN  [req |-> b.req,
         result |-> IF b.result.ok THEN serde_qs_from_bytes(b.result.value, T)
                    ELSE b.result]

\* Response::body: the response streams the body it is given.
Response_body(res, body) == [res EXCEPT !.body = body]
\* IntoResponse for Request
Request_into_response(r) ==
    LET b == Request_body_raw(r)
    IN  [req |-> b.req, result |-> Ok(Response_body(Response_new(200), b.result.value))]

MaxReads == 3
Bodies == { Body_empty, Body_broken,
            Body_from(<<"{", "msg", ":", "hi", "}">>),
            Body_from(<<"msg", "=", "hi">>),
            Body_from(<<"0xFF">>) }

InitBody ==
    /\ phase = "body"
    /\ app_mw = <<>>
    /\ router = Router_new
    /\ builders = <<>>
    /\ \E body \in Bodies :
          req = [method |-> "POST", path |-> <<SLASH>>, origin |-> <<>>,
                 route_params |-> <<>>, body |-> body]
    /\ cur = Idle
    /\ stack = <<>>
    /\ resp = NoResponse
    /\ mode = "idle"
    /\ log = <<>>
    /\ g_router = <<>>
    /\ g_own = <<>>
    /\ g_at = <<>>
    /\ sel = -1

\* The handler holds the request and reads its body: the history keeps the
\* operation, the body it found and its result.
Read(op, T, out) ==
    /\ phase = "body" /\ mode = "idle" /\ Len(log) < MaxReads
    /\ req' = out.req
    /\ cur' = [kind |-> "result", value |-> out.result]
    /\ log' = Append(log, Ev("read", [op |-> op, T |-> T, found |-> req.body,
                                      result |-> out.result], 0))
    /\ UNCHANGED <<stack, sel>>
    /\ UNCHANGED setupvars

BodyBytes == Read("body_bytes", "", Request_body_bytes(req)) /\ UNCHANGED <<resp, mode>>
BodyString == Read("body_string", "", Request_body_string(req)) /\ UNCHANGED <<resp, mode>>
BodyRaw == Read("body_raw", "", Request_body_raw(req)) /\ UNCHANGED <<resp, mode>>
BodyJson(T) == Read("body_json", T, Request_body_json(req, T)) /\ UNCHANGED <<resp, mode>>
BodyForm(T) == Read("body_form", T, Request_body_form(req, T)) /\ UNCHANGED <<resp, mode>>
\* The handler returns the request itself: the request is moved into the
\* response and can be read no more.
RequestIntoResponse ==
    /\ Read("into_response", "", Request_into_response(req))
    /\ resp' = Request_into_response(req).result.value
    /\ mode' = "done"

\* The handler answers a failed read with the error's response:
\* Err(error) => error.into_response()
BodyErrorIntoResponse ==
    /\ phase = "body" /\ mode = "idle"
    /\ cur.kind = "result" /\ ~cur.value.ok
    /\ LET out == Error_into_response(cur.value.err)
       IN  /\ resp' = out.response
           /\ mode' = IF out.panic THEN "panic" ELSE "done"
    /\ log' = Append(log, Ev("into_response", cur.value.err, 0))
    /\ UNCHANGED <<req, cur, stack, sel>>
    /\ UNCHANGED setupvars

NextBody ==
    \/ BodyErrorIntoResponse
    \/ BodyBytes
    \/ BodyString
    \/ BodyRaw
    \/ \E T \in Targets : BodyJson(T)
    \/ \E T \in Targets : BodyForm(T)
    \/ RequestIntoResponse
SpecBody == InitBody /\ [][NextBody]_vars

(***************************************************************************)
(* C11.  The body is consumed at most once: every body read after the      *)
(* first finds the empty body.  body_bytes, body_string, body_raw and      *)
(* into_response then succeed with an empty result; body_json fails, the   *)
(* empty input being no JSON document; body_form succeeds for a target     *)
(* type that accepts the empty form and fails for one that requires a      *)
(* field.                                                                  *)
(***************************************************************************)
Later == {k \in DOMAIN log : k >= 2 /\ log[k].ev = "read"}
EmptyResult(e) ==
    /\ e.result.ok
    /\ CASE e.op \in {"body_bytes", "body_string"} -> e.result.value = <<>>
         [] e.op = "body_raw" -> e.result.value = Body_empty
         [] e.op = "into_response" -> e.result.value.body = Body_empty
         [] OTHER -> e.result.value = Decoded(<<>>)
C11_LaterReadsFindEmpty ==
    phase = "body" =>
        \A k \in Later :
            /\ log[k].what.found = Body_empty
            /\ CASE log[k].what.op = "body_json" ->
                       log[k].what.result = Err(Error_IO("InvalidData"))
                 [] log[k].what.op = "body_form" /\ log[k].what.T = REQUIRED ->
                       log[k].what.result = Err(Error_IO("Other"))
                 [] OTHER -> EmptyResult(log[k].what)

\* The claim as stated: every later read finds the empty body and succeeds.
C11_LaterReadsSucceed ==
    phase = "body" =>
        \A k \in Later : log[k].what.found = Body_empty /\ log[k].what.result.ok

\* A body of bytes was read as a string, then read again as bytes and handed
\* on raw: the first read got the bytes, the later ones nothing.
C11_Witness ==
    /\ phase = "body" /\ Len(log) = 3
    /\ log[1].what.op = "body_string" /\ log[1].what.result = Ok(<<"msg", "=", "hi">>)
    /\ log[2].what.op = "body_bytes" /\ log[2].what.result = Ok(<<>>)
    /\ log[3].what.op = "into_response" /\ resp.status = 200 /\ resp.body = Body_empty

(***************************************************************************)
(* The CORS middleware in a served application (the tests of               *)
(* src/middleware/cors.rs): one route behind a header-setting middleware,  *)
(* a Cors configuration among the app-level middleware.                    *)
(***************************************************************************)
ALLOW_METHODS == "GET, POST, OPTIONS, DELETE"
EXPOSE_HEADER == "X-My-Custom-Header"
ENDPOINT == <<SLASH, "cors">>
CorsList == Cors_allow_origin(Cors_new, Origin_from_list(<<ALLOW_ORIGIN, "foo.com">>))
CorsCustom ==
    Cors_allow_credentials(
        Cors_expose_headers(
            Cors_allow_methods(Cors_allow_origin(Cors_new, Origin_from_str(ALLOW_ORIGIN)),
                               ALLOW_METHODS),
            EXPOSE_HEADER),
        TRUE)
CorsConfigs == { Cors_new, Cors_allow_credentials(Cors_new, TRUE), CorsExact, CorsList,
                 CorsCustom }
CorsChains ==
    UNION {{ <<c>>, <<TestMiddleware("X-Root", "root"), c>>,
             <<c, TestMiddleware("X-Root", "root")>> } : c \in CorsConfigs}
CorsMethods == {"GET", "OPTIONS"}
CorsPaths == { ENDPOINT, <<SLASH, "other">> }
CorsOrigins == { <<>>, <<ALLOW_ORIGIN>>, <<"foo.com">>, <<"unauthorize-origin.net">> }
CorsApp ==
    Route_method(Route_middleware(Server_at(Server_new, ENDPOINT),
                                  TestMiddleware("X-Foo", "foo")),
                 "GET", echo_path(1)).router

InitCors ==
    /\ phase = "serving"
    /\ \E chain \in CorsChains : app_mw = chain
    /\ router = CorsApp
    /\ builders = <<>>
    /\ req = NoRequest
    /\ cur = Idle
    /\ stack = <<>>
    /\ resp = NoResponse
    /\ mode = "idle"
    /\ log = <<>>
    /\ g_router = <<>>
    /\ g_own = <<>>
    /\ g_at = <<>>
    /\ sel = -1

NextCors ==
    \/ \E m \in CorsMethods, p \in CorsPaths, o \in CorsOrigins : Call(m, p, o)
    \/ ServiceCall
    \/ NextRun
    \/ MiddlewareEndpointCall
    \/ HandlerCall
    \/ NotFoundCall
    \/ Return
    \/ Respond
SpecCors == InitCors /\ [][NextCors]_vars

\* The events of the Cors middleware, and what the request carried.
CorsAt == {k \in DOMAIN log : log[k].ev \in {"pre", "short"} /\ log[k].what.kind = "cors"}
OrigOrigin == Cors_origin_of(req)
\* The configuration allows the origin: any origin, the exact one, one of the list.
AllowedBy(c, origin) ==
    c.allow_origin.kind = "Any" \/ origin \in Range(c.allow_origin.list)
\* Nothing but the post-processing of outer layers follows event k.
OnlyUnwindingAfter(k) == \A j \in DOMAIN log : j > k => log[j].ev = "post" /\ log[j].what # log[k].what
Answered == mode \in {"return", "done"}

ConfiguredOrigin(c, origin) ==
    IF c.allow_origin.kind = "Any" THEN WILDCARD_ORIGIN
    ELSE IF c.allow_origin.kind = "Exact" THEN c.allow_origin.list[1]
    ELSE origin
C13_PreflightConfigured ==
    \A k \in CorsAt :
        (mode = "done" /\ OrigMethod = "OPTIONS" /\ AllowedBy(log[k].what, OrigOrigin)) =>
            /\ Response_header(resp, "access-control-allow-methods") = <<log[k].what.allow_methods>>
            /\ Response_header(resp, "access-control-allow-headers") = <<log[k].what.allow_headers>>
            /\ Response_header(resp, "access-control-max-age") = <<log[k].what.max_age>>
            /\ Response_header(resp, "access-control-allow-origin")
                  = <<ConfiguredOrigin(log[k].what, OrigOrigin)>>

(***************************************************************************)
(* C14.  A request, OPTIONS included, whose origin the configuration does  *)
(* not allow and that reaches the Cors middleware is answered by it with   *)
(* status 401 and an empty body: neither the middleware after it nor the   *)
(* endpoint run.                                                           *)
(***************************************************************************)
C14_DisallowedOrigin ==
    \A k \in CorsAt :
        ~AllowedBy(log[k].what, OrigOrigin) =>
            /\ log[k].ev = "short"
            /\ OnlyUnwindingAfter(k)
            /\ Terminal = {}
            /\ Answered /\ resp.status = 401 /\ resp.body = <<>>
            /\ Response_header(resp, "access-control-allow-origin") = <<>>

\* An OPTIONS request from an origin outside the list was refused, with a
\* middleware and a route behind the Cors middleware.
C14_Witness ==
    /\ mode = "done" /\ OrigMethod = "OPTIONS" /\ OrigPath = ENDPOINT
    /\ Len(app_mw) = 2 /\ app_mw[1].kind = "cors" /\ app_mw[1].allow_origin.kind = "List"
    /\ req.origin = <<"unauthorize-origin.net">>
    /\ Entered(1) = <<app_mw[1]>>
    /\ resp.status = 401 /\ resp.body = <<>> /\ Terminal = {}

(***************************************************************************)
(* C15.  For a request of another method with an allowed origin the Cors   *)
(* middleware runs the continuation once and hands on the downstream       *)
(* response with status, body and headers as they were, followed by one    *)
(* Access-Control-Allow-Origin header: "*" for Any, the request's origin   *)
(* for Exact and List.                                                     *)
(***************************************************************************)
CountOf(res, name) == Len(SelectSeq(res.headers, LAMBDA h : h[1] = name))
ExpectedOrigin(c, origin) == IF c.allow_origin.kind = "Any" THEN WILDCARD_ORIGIN ELSE origin
CorsLeaves == mode = "return" /\ stack # <<>> /\ Last(stack).mw.kind = "cors"
ContinuedOnce ==
    \A k \in CorsAt :
        (OrigMethod # "OPTIONS" /\ AllowedBy(log[k].what, OrigOrigin)) =>
            /\ log[k].ev = "pre"
            /\ Cardinality({j \in Terminal : j > k}) <= 1
            /\ Answered => Cardinality({j \in Terminal : j > k}) = 1
MaxPairs == 2
QueryKeys == {"msg", "error", "time"}
QueryValues == {"Hello", "Bye", "1"}
QueryPairs == QueryKeys \X QueryValues
QueryStrings ==
    {q \in UNION {[1..n -> QueryPairs] : n \in 0..MaxPairs} :
        \A i, j \in DOMAIN q : i # j => q[i][1] # q[j][1]}
\* Uri::query: the part after "?", when there is one.
Queries == {<<>>} \cup {<<q>> : q \in QueryStrings}

\* The decoder's message (the field name stands between backquotes there).
MISSING_FIELD == "failed with reason: missing field msg"
\* serde_qs::from_str::<T>: unknown keys are skipped; a field that is not
\* optional must be there.
serde_qs_from_str(query, T) ==
    LET msgs == SelectSeq(query, LAMBDA pair : pair[1] = "msg")
    IN  IF msgs # <<>> THEN Ok(Decoded(<<msgs[1][2]>>))
        ELSE IF T = OPTIONAL THEN Ok(Decoded(<<>>))
        ELSE [ok |-> FALSE, value |-> <<>>, err |-> MISSING_FIELD]

\* Request::query failing on a URI without a query string.
Request_query_NoDefault(r, T) ==
    IF r.query = <<>>
    THEN Err(Error_Response(Response_body_string(Response_new(400), MISSING_FIELD)))
    ELSE LET res == serde_qs_from_str(r.query[1], T)
         IN  IF res.ok THEN res
             ELSE Err(Error_Response(Response_body_string(Response_new(400), res.err)))

\* Request::query
Request_query(r, T) ==
    LET query == IF r.query = <<>> THEN <<>> ELSE r.query[1]
        res == serde_qs_from_str(query, T)
    IN  IF res.ok THEN res
        ELSE Err(Error_Response(Response_body_string(Response_new(400), res.err)))

InitQuery ==
    /\ phase = "query"
    /\ app_mw = <<>>
    /\ router = Router_new
    /\ builders = <<>>
    /\ \E query \in Queries :
          req = [method |-> "GET", path |-> <<SLASH>>, origin |-> <<>>,
                 route_params |-> <<>>, query |-> query]
    /\ cur = Idle
    /\ stack = <<>>
    /\ resp = NoResponse
    /\ mode = "idle"
    /\ log = <<>>
    /\ g_router = <<>>
    /\ g_own = <<>>
    /\ g_at = <<>>
    /\ sel = -1

\* handler / optional_handler, first line: cx.query::<T>()
QueryCall(T) ==
    /\ phase = "query" /\ mode = "idle"
    /\ cur' = [kind |-> "result", value |-> Request_query(req, T)]
    /\ log' = <<Ev("query", T, 0)>>
    /\ mode' = "call"
    /\ UNCHANGED <<req, stack, resp, sel>>
    /\ UNCHANGED setupvars

\* handler / optional_handler, the match: the value's response, or the
\* error's.
QueryHandlerReturn ==
    /\ phase = "query" /\ mode = "call"
    /\ IF cur.value.ok
       THEN /\ resp' = IF log[1].what = REQUIRED
                       THEN String_into_response(cur.value.value.msg[1])
                       ELSE Response_new(200)
            /\ mode' = "done"
       ELSE LET out == Error_into_response(cur.value.err)
            IN  /\ resp' = out.response
                /\ mode' = IF out.panic THEN "panic" ELSE "done"
    /\ UNCHANGED <<req, cur, stack, log, sel>>
    /\ UNCHANGED setupvars

NextQuery ==
    \/ \E T \in Targets : QueryCall(T)
    \/ QueryHandlerReturn
SpecQuery == InitQuery /\ [][NextQuery]_vars

(***************************************************************************)
(* C16.  query() reads a URI without a query string as the empty query     *)
(* string.  When the pairs decode to the target type the handler gets the  *)
(* value; otherwise the result is Error::Response with a response of       *)
(* status 400 whose body is the decoder's message, and the error's         *)
(* conversion to a response is that response.                              *)
(***************************************************************************)
QueryOf(r) == IF r.query = <<>> THEN <<>> ELSE r.query[1]
HasMsg(r) == \E i \in DOMAIN QueryOf(r) : QueryOf(r)[i][1] = "msg"
MsgOf(r) == QueryOf(r)[CHOOSE i \in DOMAIN QueryOf(r) : QueryOf(r)[i][1] = "msg"][2]
C16_Query ==
    (phase = "query" /\ mode # "idle") =>
        LET T == log[1].what
        IN  IF HasMsg(req) \/ T = OPTIONAL
            THEN /\ cur.value.ok
                 /\ cur.value.value.msg = IF HasMsg(req) THEN <<MsgOf(req)>> ELSE <<>>
                 /\ mode = "done" =>
                       /\ resp.status = 200
                       /\ T = REQUIRED => resp.body = MsgOf(req)
            ELSE /\ ~cur.value.ok
                 /\ cur.value.err.variant = "Response"
                 /\ cur.value.err.response.status = 400
                 /\ cur.value.err.response.body = MISSING_FIELD
                 /\ mode # "panic"
                 /\ mode = "done" => resp = cur.value.err.response

\* /?msg=Hello answered 200 with the body Hello.
C16_Witness ==
    /\ phase = "query" /\ mode = "done"
    /\ req.query = << << <<"msg", "Hello">> >> >>
    /\ log[1].what = REQUIRED
    /\ resp.status = 200 /\ resp.body = "Hello"

(***************************************************************************)
(* C17.  The error of a failed operation in a handler becomes a response   *)
(* with an error-class status: Error::into_response returns such a         *)
(* response for the Hyper, IO and Response variants and does not abort.    *)
(***************************************************************************)
Converted == {k \in DOMAIN log : log[k].ev = "into_response"}
C17_ErrorsBecomeResponses ==
    (phase = "body" /\ Converted # {}) =>
        /\ mode = "done"
        /\ resp.status >= 400 /\ resp.status <= 599

(***************************************************************************)
(* ResultExt (src/error.rs): a std Result whose error is turned into an    *)
(* error response.  A response built there carries the error as its cause. *)
(***************************************************************************)
BAD_REQUEST == 400
INTERNAL_SERVER_ERROR == 500
StatusCodes == {BAD_REQUEST, 401, 404, 422, INTERNAL_SERVER_ERROR, 503}
StringError(s) == [type |-> "StringError", text |-> s]
io_Error(kind) == [type |-> "io::Error", text |-> kind]
StdErrors == {StringError(s) : s \in {"a", "b", "boom"}}
                \cup {io_Error(k) : k \in {"InvalidData", "Other", "NotFound", "TimedOut"}}
\* The values are strings, sequences of tokens.
StdResults ==
    {Ok(<<v>>) : v \in QueryValues \cup {"x", "y", "z"}} \cup {Err(e) : e \in StdErrors}
\* hyper::Response::builder().status(s).extension(Cause(e)).body(Body::empty())
Response_with_cause(status, e) ==
    [status |-> status, headers |-> <<>>, body |-> <<>>, cause |-> <<e>>]

\* with_err_status answering every error with status 500.
ResultExt_with_err_status_Fixed(self, status) ==
    IF self.ok THEN self
    ELSE Err(Error_Response(Response_with_cause(INTERNAL_SERVER_ERROR, self.err)))

\* ResultExt::with_err_status
ResultExt_with_err_status(self, status) ==
    IF self.ok THEN self
    ELSE Err(Error_Response(Response_with_cause(status, self.err)))
\* ResultExt::client_err
ResultExt_client_err(self) == ResultExt_with_err_status(self, BAD_REQUEST)
\* ResultExt::server_err
ResultExt_server_err(self) == ResultExt_with_err_status(self, INTERNAL_SERVER_ERROR)

InitResultExt ==
    /\ phase = "result_ext"
    /\ app_mw = <<>>
    /\ router = Router_new
    /\ builders = <<>>
    /\ req = NoRequest
    /\ \E r \in StdResults : cur = [kind |-> "result", value |-> r]
    /\ stack = <<>>
    /\ resp = NoResponse
    /\ mode = "idle"
    /\ log = <<>>
    /\ g_router = <<>>
    /\ g_own = <<>>
    /\ g_at = <<>>
    /\ sel = -1

\* One call on the result the handler holds; the history keeps the call and
\* the result it was made on.
Converts(op, status, out) ==
    /\ phase = "result_ext" /\ mode = "idle"
    /\ cur' = [kind |-> "result", value |-> out]
    /\ log' = <<Ev(op, [status |-> status, self |-> cur.value], 0)>>
    /\ mode' = "done"
    /\ UNCHANGED <<req, stack, resp, sel>>
    /\ UNCHANGED setupvars
ClientErr == Converts("client_err", 0, ResultExt_client_err(cur.value))
ServerErr == Converts("server_err", 0, ResultExt_server_err(cur.value))
WithErrStatus(status) ==
    Converts("with_err_status", status, ResultExt_with_err_status(cur.value, status))

NextResultExt ==
    \/ ClientErr
    \/ ServerErr
    \/ \E status \in StatusCodes : WithErrStatus(status)
SpecResultExt == InitResultExt /\ [][NextResultExt]_vars

(***************************************************************************)
(* C18.  with_err_status(s) leaves Ok(v) as it is and turns Err(e) into    *)
(* Err(Error::Response(r)) where r has status s, an empty body and e as    *)
(* its cause; client_err does so with 400 and server_err with 500.         *)
(***************************************************************************)
C18_ResultExt ==
    (phase = "result_ext" /\ mode = "done") =>
        LET self == log[1].what.self
            s == CASE log[1].ev = "client_err" -> 400
                   [] log[1].ev = "server_err" -> 500
                   [] OTHER -> log[1].what.status
        IN  IF self.ok THEN cur.value = self
            ELSE /\ ~cur.value.ok
                 /\ cur.value.err.variant = "Response"
                 /\ cur.value.err.response.status = s
                 /\ cur.value.err.response.body = <<>>
                 /\ cur.value.err.response.cause = <<self.err>>

\* client_err on a failed result: a 400 response with the failure as cause.
C18_Witness ==
    /\ phase = "result_ext" /\ mode = "done"
    /\ log[1].ev = "client_err" /\ log[1].what.self = Err(StringError("boom"))
    /\ cur.value.err.response.status = 400
    /\ cur.value.err.response.cause = <<StringError("boom")>>

(***************************************************************************)
(* Cookies: Request::cookie (src/request.rs) and the handlers of           *)
(* tests/cookies.rs, served by an application with the cookie middleware.  *)
(* The middleware and Response::set_cookie follow spec.md 3 and 6: the     *)
(* middleware parses the Cookie header into a jar kept in the request's    *)
(* local slot, and writes one Set-Cookie header for every cookie the       *)
(* response sets.  A header value is a sequence of tokens:                 *)
(* name "=" value, pairs separated by ";".                                 *)
(***************************************************************************)
MaxCookies == 2
COOKIE_NAME == "testCookie"
CookieNames == {COOKIE_NAME, "C1"}
CookieValues == {"RequestCookieValue", "V1"}
Cookie_new(name, value) == [name |-> name, value |-> value]
CookieLists ==
    {cs \in UNION {[1..n -> {Cookie_new(n1, v) : n1 \in CookieNames, v \in CookieValues}]
                      : n \in 0..MaxCookies} :
        \A i, j \in DOMAIN cs : i # j => cs[i].name # cs[j].name}
\* Cookie::encoded().to_string()
Cookie_encoded(c) == <<c.name, "=", c.value>>
RECURSIVE CookieHeader(_)
CookieHeader(cs) ==
    IF cs = <<>> THEN <<>>
    ELSE IF Len(cs) = 1 THEN Cookie_encoded(cs[1])
    ELSE Cookie_encoded(cs[1]) \o <<";">> \o CookieHeader(Tail(cs))
\* The middleware's parse of the Cookie header: split at ";", each part
\* parsed as name=value and added to the jar.
RECURSIVE CookieJar_parse(_)
CookieJar_parse(tokens) ==
    IF Len(tokens) < 3 THEN <<>>
    ELSE <<Cookie_new(tokens[1], tokens[3])>> \o CookieJar_parse(Drop(tokens, 4))
\* CookieJar::get
CookieJar_get(jar, name) ==
    LET held == SelectSeq(jar, LAMBDA c : c.name = name)
    IN  IF held = <<>> THEN <<>> ELSE <<Last(held)>>

\* Request::cookie answering with whatever cookie the jar holds first.
Request_cookie_Any(r, name) ==
    IF r.local = <<>> THEN [panic |-> TRUE, cookie |-> <<>>]
    ELSE [panic |-> FALSE, cookie |-> IF r.local[1] = <<>> THEN <<>> ELSE <<r.local[1][1]>>]

\* Request::cookie: the jar is expected in the local slot.
Request_cookie(r, name) ==
    IF r.local = <<>> THEN [panic |-> TRUE, cookie |-> <<>>]
    ELSE [panic |-> FALSE, cookie |-> CookieJar_get(r.local[1], name)]

\* Response::set_cookie: the cookie is kept with the response for the
\* middleware.
Response_set_cookie(res, c) ==
    [status |-> res.status, headers |-> res.headers, body |-> res.body,
     cookie_events |-> (IF "cookie_events" \in DOMAIN res THEN res.cookie_events ELSE <<>>)
                          \o <<c>>]
RECURSIVE AppendSetCookies(_, _)
AppendSetCookies(res, cs) ==
    IF cs = <<>> THEN res
    ELSE AppendSetCookies(Response_append_header(res, "set-cookie", Cookie_encoded(cs[1])),
                          Tail(cs))

InitCookies ==
    /\ phase = "cookies"
    /\ app_mw = <<>>
    /\ router = Router_new
    /\ builders = <<>>
    /\ \E cs \in CookieLists :
          /\ req = [method |-> "GET", path |-> <<SLASH>>, origin |-> <<>>,
                    route_params |-> <<>>,
                    cookie |-> IF cs = <<>> THEN <<>> ELSE <<CookieHeader(cs)>>,
                    local |-> <<>>]
          /\ log = <<Ev("request", cs, 0)>>
    /\ cur = Idle
    /\ stack = <<>>
    /\ resp = NoResponse
    /\ mode = "idle"
    /\ g_router = <<>>
    /\ g_own = <<>>
    /\ g_at = <<>>
    /\ sel = -1

\* The cookie middleware before the continuation: the jar of the request's
\* Cookie header goes into the local slot.
CookiesBefore ==
    /\ phase = "cookies" /\ mode = "idle"
    /\ req' = [req EXCEPT !.local =
                  <<IF req.cookie = <<>> THEN <<>> ELSE CookieJar_parse(req.cookie[1])>>]
    /\ mode' = "call"
    /\ UNCHANGED <<cur, stack, resp, log, sel>>
    /\ UNCHANGED setupvars

\* retrieve_cookie: cx.cookie(name).unwrap().value().to_string()
RetrieveCookie(name) ==
    /\ phase = "cookies" /\ mode = "call"
    /\ LET out == Request_cookie(req, name)
       IN  /\ cur' = [kind |-> "result", value |-> out.cookie]
           /\ IF out.panic \/ out.cookie = <<>>
              THEN mode' = "panic" /\ UNCHANGED resp
              ELSE mode' = "return" /\ resp' = String_into_response(out.cookie[1].value)
    /\ log' = Append(log, Ev("cookie", name, 0))
    /\ UNCHANGED <<req, stack, sel>>
    /\ UNCHANGED setupvars

\* set_cookie / set_multiple_cookie: a 200 response on which the cookies
\* are set.
SetCookie(cs) ==
    /\ phase = "cookies" /\ mode = "call"
    /\ resp' = IF Len(cs) = 1 THEN Response_set_cookie(Response_new(200), cs[1])
               ELSE Response_set_cookie(Response_set_cookie(Response_new(200), cs[1]), cs[2])
    /\ mode' = "return"
    /\ log' = Append(log, Ev("set_cookie", cs, 0))
    /\ UNCHANGED <<req, cur, stack, sel>>
    /\ UNCHANGED setupvars

\* The cookie middleware after the continuation: one Set-Cookie header for
\* each cookie set on the response, in the order the jar yields them.
CookiesAfter(swap) ==
    /\ phase = "cookies" /\ mode = "return"
    /\ LET evs == IF "cookie_events" \in DOMAIN resp THEN resp.cookie_events ELSE <<>>
           cs == IF swap /\ Len(evs) = 2 THEN <<evs[2], evs[1]>> ELSE evs
       IN  resp' = AppendSetCookies(resp, cs)
    /\ mode' = "done"
    /\ UNCHANGED <<req, cur, stack, log, sel>>
    /\ UNCHANGED setupvars

NextCookies ==
    \/ CookiesBefore
    \/ \E name \in CookieNames : RetrieveCookie(name)
    \/ \E cs \in CookieLists : cs # <<>> /\ SetCookie(cs)
    \/ \E swap \in BOOLEAN : CookiesAfter(swap)
SpecCookies == InitCookies /\ [][NextCookies]_vars

(***************************************************************************)
(* C19.  A cookie (name, value) set on a response leaves the application   *)
(* as a Set-Cookie header name=value; a request with the header            *)
(* Cookie: name=value makes Request::cookie(name) return a cookie of that  *)
(* value in the endpoint, and Request::cookie returns None for a name the  *)
(* header does not hold.                                                   *)
(***************************************************************************)
Sent == log[1].what
Asked == {k \in DOMAIN log : log[k].ev = "cookie"}
WasSet == {k \in DOMAIN log : log[k].ev = "set_cookie"}
SetCookieHeaders == SelectSeq(resp.headers, LAMBDA h : h[1] = "set-cookie")
C19_CookieRoundTrip ==
    phase = "cookies" =>
        /\ \A k \in Asked :
              LET sent == {i \in DOMAIN Sent : Sent[i].name = log[k].what}
              IN  IF sent = {} THEN cur.value = <<>> /\ mode = "panic"
                  ELSE /\ \E i \in sent : cur.value = <<Cookie_new(log[k].what, Sent[i].value)>>
                       /\ mode # "panic"
                       /\ resp.body = cur.value[1].value
        /\ \A k \in WasSet :
              mode = "done" =>
                 /\ Len(SetCookieHeaders) = Len(log[k].what)
                 /\ \A i \in DOMAIN log[k].what :
                       <<"set-cookie", <<log[k].what[i].name, "=", log[k].what[i].value>>>>
                          \in Range(resp.headers)

\* The request of the tests: Cookie: testCookie=RequestCookieValue, read
\* back by the handler.
C19_Witness ==
    /\ phase = "cookies" /\ mode = "done"
    /\ req.cookie = << <<COOKIE_NAME, "=", "RequestCookieValue">> >>
    /\ Asked # {} /\ log[2].what = COOKIE_NAME
    /\ resp.status = 200 /\ resp.body = "RequestCookieValue"

(***************************************************************************)
(* Registration on its own: one handle at a path of AtPaths, trailing      *)
(* slashes included, put into prefix mode or not, given middleware or not, *)
(* and registered on with Route::method and Route::all.                    *)
(***************************************************************************)
InitPrefix ==
    /\ phase = "setup"
    /\ app_mw = <<>>
    /\ router = Router_new
    /\ \E path \in AtPaths : builders = <<Fields(Server_at(Server_new, path))>>
    /\ req = NoRequest
    /\ cur = Idle
    /\ stack = <<>>
    /\ resp = NoResponse
    /\ mode = "idle"
    /\ log = <<>>
    /\ g_router = <<>>
    /\ g_own = << <<>> >>
    /\ g_at = <<>>
    /\ sel = -1

NextPrefix ==
    \/ StripPrefix
    \/ \E m \in RouteMws : Len(Top.middleware) < MaxMw /\ RouteMiddleware(m)
    \/ \E method \in ReqMethods : Method(method)
    \/ All
SpecPrefix == InitPrefix /\ [][NextPrefix]_vars

(***************************************************************************)
(* C20.  A call of Route::method or Route::all in prefix mode makes        *)
(* exactly two registrations, the first at the handle's current path and   *)
(* the second at the path of at("*--tide-path-rest"): the current path     *)
(* followed by "/*--tide-path-rest", the "/" left out when the current     *)
(* path ends with one.  Outside prefix mode the call makes exactly one     *)
(* registration, at the current path.                                      *)
(***************************************************************************)
CallsMade == {g_router[i].call : i \in DOMAIN g_router}
MadeBy(c) == SelectSeq([i \in DOMAIN router |-> [at |-> router[i].path, by |-> g_router[i]]],
                       LAMBDA x : x.by.call = c)
RestPath(p) == IF ends_with(p, SLASH) THEN p \o <<WILDCARD>> ELSE p \o <<SLASH, WILDCARD>>
C20_Registrations ==
    \A c \in CallsMade :
        LET made == MadeBy(c)
            p == made[1].by.path
        IN  IF made[1].by.prefix
            THEN /\ Len(made) = 2
                 /\ made[1].at = p
                 /\ made[2].at = RestPath(p)
            ELSE Len(made) = 1 /\ made[1].at = p

\* The claim as stated: the second registration at the current path
\* followed by "/*--tide-path-rest" for every current path.
C20_SlashAlwaysInserted ==
    \A c \in CallsMade :
        LET made == MadeBy(c)
            p == made[1].by.path
        IN  IF made[1].by.prefix
            THEN /\ Len(made) = 2
                 /\ made[1].at = p
                 /\ made[2].at = p \o <<SLASH, WILDCARD>>
            ELSE Len(made) = 1 /\ made[1].at = p

\* A prefix-mode handle whose path ends with "/", registered on with both
\* Route::method and Route::all.
C20_Witness ==
    /\ \E c \in CallsMade :
          /\ MadeBy(c)[1].by.prefix /\ MadeBy(c)[1].by.method = ALL
          /\ ends_with(MadeBy(c)[1].by.path, SLASH)
          /\ Len(MadeBy(c)[1].by.path) > 1
    /\ \E c \in CallsMade : MadeBy(c)[1].by.prefix /\ MadeBy(c)[1].by.method = "GET"
    /\ Len(router) = 4

(***************************************************************************)
(* C21.  The two registrations of one prefix-mode call hold the same       *)
(* wrapping: one endpoint behind one prefix-stripping step, wrapped once   *)
(* with the middleware the handle held.  A request served by either of     *)
(* them enters no captured middleware and no stripping step twice, and one *)
(* that is answered from behind the chain has run each exactly once.       *)
(***************************************************************************)
WrappedOnce(ep, mw) ==
    LET sp == IF mw = <<>> THEN ep ELSE ep.inner
    IN  /\ ep.kind = (IF mw = <<>> THEN "strip" ELSE "mw")
        /\ mw # <<>> => ep.middleware = mw
        /\ sp.kind = "strip"
        /\ sp.inner.kind \in {"fn", "service"}
StripsAt(level) == Cardinality({k \in Positions({"strip"}) : log[k].level = level})
C21_SharedWrapping ==
    /\ \A i, j \in DOMAIN router :
          (g_router[i].call = g_router[j].call /\ g_router[i].prefix) =>
              /\ router[i].ep = router[j].ep
              /\ WrappedOnce(router[i].ep, g_router[i].mw)
    /\ (Selected /\ g_router[sel].prefix) =>
          /\ IsPrefix(Entered(1), Chain)
          /\ StripsAt(1) <= 1
          /\ (mode = "done" /\ ~ShortCircuited) =>
                /\ Entered(1) = Chain
                /\ StripsAt(1) = 1

\* A request on the wildcard path of a prefix-mode registration made with
\* middleware, answered by the handler.
C21_Witness ==
    /\ Selected /\ g_router[sel].prefix /\ ~g_router[sel].nested
    /\ g_router[sel].mw # <<>>
    /\ router[sel].path # OrigPath
    /\ mode = "done" /\ ~ShortCircuited
    /\ StripsAt(1) = 1

(***************************************************************************)
(* StripPrefixEndpoint::call on its own, with the whole request: method,   *)
(* URI (scheme, authority, path, query), headers, body, params and state.  *)
(* The URI is rebuilt from a path-and-query string, a sequence of tokens   *)
(* in which "?" separates the path from the query.                         *)
(***************************************************************************)
QUESTION == "?"
Uri(scheme, authority, path, query) ==
    [scheme |-> scheme, authority |-> authority, path |-> path, query |-> query]
\* format!("/{}", rest) followed by "?" and the query, if there is one
path_and_query_of(rest, query) ==
    <<SLASH>> \o rest \o (IF query = <<>> THEN <<>> ELSE <<QUESTION>> \o query[1])
\* Builder::path_and_query(..).build(): the string is split at the first
\* "?"; a scheme without an authority, or an authority without a scheme,
\* next to a path is an error.
Uri_builder_build(scheme, authority, pq) ==
    LET marks == {i \in DOMAIN pq : pq[i] = QUESTION}
        cut == IF marks = {} THEN Len(pq) + 1
               ELSE CHOOSE i \in marks : \A j \in marks : i <= j
        uri == Uri(scheme, authority, SubSeq(pq, 1, cut - 1),
                   IF marks = {} THEN <<>> ELSE <<SubSeq(pq, cut + 1, Len(pq))>>)
    IN  [ok |-> (scheme = <<>>) = (authority = <<>>), uri |-> uri]

\* StripPrefixEndpoint::call leaving the query out of the new URI.
StripPrefixEndpoint_call_NoQuery(r) ==
    LET rest == IF Request_rest(r) = <<>> THEN <<>> ELSE Request_rest(r)[1]
        built == Uri_builder_build(r.uri.scheme, r.uri.authority,
                                   path_and_query_of(rest, <<>>))
    IN  [panic |-> ~built.ok, req |-> [r EXCEPT !.uri = built.uri]]

\* StripPrefixEndpoint::call up to the call of the inner endpoint: the
\* request the inner endpoint is given, or the panic of unwrap().
StripPrefixEndpoint_call(r) ==
    LET rest == IF Request_rest(r) = <<>> THEN <<>> ELSE Request_rest(r)[1]
        built == Uri_builder_build(r.uri.scheme, r.uri.authority,
                                   path_and_query_of(rest, r.uri.query))
    IN  [panic |-> ~built.ok, req |-> [r EXCEPT !.uri = built.uri]]

MaxStripParams == 2
StripRests == { <<"b">>, <<"b", SLASH, "c">> }
StripParams == {EmptyParams} \cup {[n \in {REST} |-> v] : v \in StripRests}
StripParamSeqs == UNION {[1..n -> StripParams] : n \in 0..MaxStripParams}
StripQueries == { <<>>, << <<>> >>, << <<"msg", "=", "1">> >> }
StripUris ==
    {Uri(sa[1], sa[2], <<SLASH, "a">>, q) :
        sa \in { << <<>>, <<>> >>, << <<"http">>, <<"example.com">> >> },
        q \in StripQueries}
StripRequests ==
    [method : {"GET", "POST"}, uri : StripUris, headers : { <<>>, << <<"x-foo", "foo">> >> },
     body : {Body_empty, Body_from(<<"1">>)}, route_params : StripParamSeqs,
     state : {"state"}]

InitStrip ==
    /\ phase = "strip"
    /\ app_mw = <<>>
    /\ router = Router_new
    /\ builders = <<>>
    /\ req \in StripRequests
    /\ cur = CallEndpoint(StripPrefixEndpoint_new(echo_path(1)))
    /\ stack = <<>>
    /\ resp = NoResponse
    /\ mode = "call"
    /\ log = <<>>
    /\ g_router = <<>>
    /\ g_own = <<>>
    /\ g_at = <<>>
    /\ sel = -1

\* StripPrefixEndpoint::call: the URI is replaced and the inner endpoint
\* called with the request.
StripCall ==
    /\ phase = "strip" /\ mode = "call"
    /\ cur.kind = "endpoint" /\ cur.endpoint.kind = "strip"
    /\ LET out == StripPrefixEndpoint_call(req)
       IN  /\ req' = out.req
           /\ IF out.panic THEN mode' = "panic" /\ cur' = Idle
              ELSE mode' = "call" /\ cur' = CallEndpoint(cur.endpoint.inner)
    /\ log' = Append(log, Ev("strip", req, 0))
    /\ UNCHANGED <<stack, resp, sel>>
    /\ UNCHANGED setupvars

\* The inner endpoint, echo_path: answers with the path of the request it
\* is given.
StripInnerCall ==
    /\ phase = "strip" /\ mode = "call"
    /\ cur.kind = "endpoint" /\ cur.endpoint.kind = "fn"
    /\ resp' = String_into_response(req.uri.path)
    /\ log' = Append(log, Ev("endpoint", req, 0))
    /\ mode' = "done"
    /\ cur' = Idle
    /\ UNCHANGED <<req, stack, sel>>
    /\ UNCHANGED setupvars

NextStrip == StripCall \/ StripInnerCall
SpecStrip == InitStrip /\ [][NextStrip]_vars

(***************************************************************************)
(* C22.  Prefix stripping changes the path of the request URI and nothing  *)
(* else: the query, scheme and authority, and the method, headers, body,   *)
(* params and state of the request are what they were, and the inner       *)
(* endpoint is called once, with the rewritten request.                    *)
(***************************************************************************)
Inbound == log[1].what
InnerCalls == SelectSeq(log, LAMBDA e : e.ev = "endpoint")
C24_TailOfLastParams ==
    (phase = "strip" /\ log # <<>>) =>
        LET ps == Inbound.route_params
        IN  req.uri.path =
               IF ps # <<>> /\ REST \in DOMAIN ps[Len(ps)]
               THEN <<SLASH>> \o ps[Len(ps)][REST]
               ELSE <<SLASH>>

\* An outer match captured a tail, the inner one none: param() finds the
\* outer tail, the path is rewritten to "/".
C24_Witness ==
    /\ phase = "strip" /\ mode = "done"
    /\ Len(Inbound.route_params) = 2
    /\ Inbound.route_params[1] # EmptyParams
    /\ Inbound.route_params[2] = EmptyParams
    /\ ~Request_param(Inbound, REST, "String").panic
    /\ Request_param(Inbound, REST, "String").value.str # <<>>
    /\ req.uri.path = <<SLASH>>

(***************************************************************************)
(* The prefix flag on its own: handles made by Server::at and Route::at,   *)
(* dropped again, put into prefix mode, and registered on with method,     *)
(* all and nest; the history keeps every call with the depth of the handle *)
(* it was made on.                                                         *)
(***************************************************************************)
MaxFlagCalls == 5
FlagOps == {"method", "all", "nest"}

InitFlag ==
    /\ phase = "flag"
    /\ app_mw = <<>>
    /\ router = Router_new
    /\ builders = <<>>
    /\ req = NoRequest
    /\ cur = Idle
    /\ stack = <<>>
    /\ resp = NoResponse
    /\ mode = "idle"
    /\ log = <<>>
    /\ g_router = <<>>
    /\ g_own = <<>>
    /\ g_at = <<>>
    /\ sel = -1

FlagFrame == UNCHANGED <<phase, app_mw, g_router, g_own, g_at, req, cur, stack, resp, mode, sel>>

\* Server::at
FlagServerAt ==
    /\ phase = "flag" /\ builders = <<>>
    /\ builders' = <<Fields(Server_at([router |-> router, middleware |-> app_mw],
                                      <<SLASH, "a">>))>>
    /\ log' = Append(log, Ev("at", <<>>, 1))
    /\ UNCHANGED router
    /\ FlagFrame

\* Route::at
FlagRouteAt ==
    /\ phase = "flag" /\ builders # <<>> /\ Len(builders) < MaxDepth
    /\ builders' = Append(builders, Fields(Route_at(Self, <<"b">>)))
    /\ log' = Append(log, Ev("at", <<>>, Len(builders) + 1))
    /\ UNCHANGED router
    /\ FlagFrame

\* The top handle goes out of scope.
FlagDrop ==
    /\ phase = "flag" /\ builders # <<>>
    /\ builders' = Front(builders)
    /\ log' = Append(log, Ev("drop", <<>>, Len(builders)))
    /\ UNCHANGED router
    /\ FlagFrame

\* Route::strip_prefix
FlagStripPrefix ==
    /\ phase = "flag" /\ builders # <<>>
    /\ SetSelf(Route_strip_prefix(Self))
    /\ log' = Append(log, Ev("strip_prefix", <<>>, Len(builders)))
    /\ FlagFrame

\* Route::method, Route::all, Route::nest: the history keeps which entries
\* of the router the call added.
FlagRegister(op) ==
    /\ phase = "flag" /\ builders # <<>>
    /\ LET r == CASE op = "method" -> Route_method(Self, "GET", echo_path(Len(log)))
                  [] op = "all" -> Route_all(Self, echo_path(Len(log)))
                  [] op = "nest" -> Route_nest(Self, InnerServer)
       IN  /\ SetSelf(r)
           /\ log' = Append(log, Ev(op, <<Len(router) + 1, Len(r.router)>>, Len(builders)))
    /\ FlagFrame

NextFlag ==
    \/ (Len(log) < MaxFlagCalls /\ FlagServerAt)
    \/ (Len(log) < MaxFlagCalls /\ FlagRouteAt)
    \/ (Len(log) < MaxFlagCalls /\ FlagDrop)
    \/ (Len(log) < MaxFlagCalls /\ FlagStripPrefix)
    \/ \E op \in FlagOps : Len(log) < MaxFlagCalls /\ FlagRegister(op)
SpecFlag == InitFlag /\ [][NextFlag]_vars

(***************************************************************************)
(* C23.  The prefix flag belongs to one handle: a handle is in prefix mode *)
(* exactly when strip_prefix() was called on it after its creation and     *)
(* after its last nest(); a child starts out of prefix mode, at() leaves   *)
(* the parent as it was, nest() leaves the handle out of prefix mode.  A   *)
(* method() or all() call registers in prefix mode exactly when the handle *)
(* is in prefix mode by that rule, and the call inside nest() always does. *)
(***************************************************************************)
\* The call that created the handle which is at depth d when call k is made.
CreatedAt(k, d) ==
    LET made == {j \in 1..(k - 1) : log[j].ev = "at" /\ log[j].level = d}
    IN  CHOOSE j \in made : \A i \in made : i <= j
\* strip_prefix() was called on that handle before call k, and no nest()
\* on it since.
StrippedBefore(k, d) ==
    \E j \in (CreatedAt(k, d) + 1)..(k - 1) :
        /\ log[j].ev = "strip_prefix" /\ log[j].level = d
        /\ \A i \in (j + 1)..(k - 1) : ~(log[i].ev = "nest" /\ log[i].level = d)
AddedBy(k) == SubSeq(router, log[k].what[1], log[k].what[2])
InPrefixMode(k) ==
    /\ Len(AddedBy(k)) = 2
    /\ AddedBy(k)[1].ep.kind = "strip" /\ AddedBy(k)[2].ep.kind = "strip"
    /\ IsRestPattern(AddedBy(k)[2].path)
OutOfPrefixMode(k) ==
    /\ Len(AddedBy(k)) = 1
    /\ AddedBy(k)[1].ep.kind = "fn"
    /\ ~IsRestPattern(AddedBy(k)[1].path)
C23_FlagOfOneBuilder ==
    phase = "flag" =>
        /\ \A d \in DOMAIN builders :
              builders[d].prefix = StrippedBefore(Len(log) + 1, d)
        /\ \A k \in DOMAIN log :
              /\ log[k].ev \in {"method", "all"} =>
                    IF StrippedBefore(k, log[k].level)
                    THEN InPrefixMode(k) ELSE OutOfPrefixMode(k)
              /\ log[k].ev = "nest" => InPrefixMode(k)

\* strip_prefix(), then nest(), then a registration on the same handle,
\* which is out of prefix mode again; and a child of a prefix-mode parent.
C23_Witness ==
    /\ phase = "flag" /\ Len(log) = 5
    /\ log[2].ev = "strip_prefix" /\ log[3].ev = "nest" /\ log[4].ev = "method"
    /\ log[5].ev = "at"
    /\ ~Top.prefix /\ ~builders[1].prefix
    /\ OutOfPrefixMode(4)

(***************************************************************************)
(* C25.  A request without an Origin header is taken to have the origin    *)
(* "".  Under Any it is allowed: with a method other than OPTIONS it runs  *)
(* the continuation and comes back with the status of the endpoint and     *)
(* Access-Control-Allow-Origin "*"; an OPTIONS request is answered by the  *)
(* preflight response with status 200.  Under Exact or List without ""     *)
(* it is answered with 401 and the endpoint never runs.                    *)
(***************************************************************************)
NoOriginHeader == req.origin = <<>>
\* The status of the endpoint that answered: the handler's 200, the
\* not-found handler's 404.
EndpointStatus(k) == IF log[k].ev = "endpoint" THEN 200 ELSE 404
ReachesEndpoint(k) ==
    /\ log[k].ev = "pre"
    /\ Cardinality({j \in Terminal : j > k}) <= 1
    /\ mode = "done" =>
          /\ \E j \in Terminal : j > k /\ resp.status = EndpointStatus(j)
          /\ Cardinality({j \in Terminal : j > k}) = 1
          /\ Response_header(resp, "access-control-allow-origin") = <<WILDCARD_ORIGIN>>
          /\ CountOf(resp, "access-control-allow-origin") = 1
Rejected(k) ==
    /\ log[k].ev = "short"
    /\ Terminal = {}
    /\ Answered /\ resp.status = 401
C25_NoOriginHeader ==
    \A k \in CorsAt :
        NoOriginHeader =>
            /\ OrigOrigin = ""
            /\ IF log[k].what.allow_origin.kind = "Any"
               THEN IF OrigMethod = "OPTIONS"
                    THEN log[k].ev = "short" /\ Terminal = {} /\ Answered /\ resp.status = 200
                    ELSE ReachesEndpoint(k)
               ELSE Rejected(k)

\* The claim as stated: under Any the request reaches the endpoint,
\* whatever its method.
C25_AlwaysReachesEndpoint ==
    \A k \in CorsAt :
        NoOriginHeader =>
            IF log[k].what.allow_origin.kind = "Any"
            THEN ReachesEndpoint(k)
            ELSE Rejected(k)

\* The request of not_set_origin_header: a GET without Origin under
\* Cors::new(), answered by the endpoint.
C25_Witness ==
    /\ mode = "done" /\ OrigMethod = "GET" /\ OrigPath = ENDPOINT
    /\ NoOriginHeader
    /\ app_mw = <<Cors_new>>
    /\ resp.status = 200 /\ resp.body = ENDPOINT
    /\ Response_header(resp, "access-control-allow-origin") = <<WILDCARD_ORIGIN>>
    /\ Cardinality(Terminal) = 1

====
